---- MODULE Spec2Model ----
(***************************************************************************)
(* Model of the ebanisteria 3D joint viewer.                               *)
(*                                                                         *)
(*  - the manual viewer (VisorCanvas.jsx): splitMeshByComponents,          *)
(*    splitMeshGeometrically and the useMemo of PiezasManual that          *)
(*    classifies the pieces and computes the separated start pose;         *)
(*  - its keyboard control: the key listeners, the useFrame callback and   *)
(*    applyStart, in both versions the file holds (version 1 moves on X, Y *)
(*    and turns with I / K, version 2 moves on X, Y and Z);                *)
(*  - the progress-driven viewers (the fabrication timeline variants of    *)
(*    VisorCanvas.jsx) and the LandingEbanisteria controls that drive      *)
(*    their progreso value.                                                *)
(*                                                                         *)
(* Arithmetic.  The mesh is centred and scaled by 5.5 / M, M the largest   *)
(* raw dimension of the loaded buffer.  A raw coordinate c on an axis      *)
(* whose raw extent is lo..hi becomes (2c - (lo+hi)) * 5.5 / (2M).  All    *)
(* scene lengths of one mesh are therefore exact multiples of 1/(40 M):    *)
(* the model keeps them as integers in that unit ("W units"), so 1 scene   *)
(* unit is 40*M and SEP = 2.8 is 112*M.  Floating-point rounding of the    *)
(* source is not modelled; the rounding the source does itself             *)
(* (Math.round, Math.floor, Math.min) is.                                  *)
(***************************************************************************)
EXTENDS Integers, Sequences, FiniteSets, TLC

VARIABLES
  rawGeo,      \* the triangle buffer STLLoader returned: Seq of <<v1, v2, v3>>
  pc,          \* "loading": Suspense shows the fallback; "mounted": PiezasManual rendered
  ensamble,    \* modelo.ensamble as destructured by PiezasManual
  geo,         \* the centred and scaled geometry of the useMemo
  memo,        \* the useMemo result: geoA, auxBase, upperGroup, startPos, with its
               \* locals partes after step 1 (componentes) and after step 2 (partes)
  progreso,    \* LandingEbanisteria: progreso state, in tenths of a percent point
  modelo,      \* LandingEbanisteria: id of the selected catalogue model
  modoCotas,   \* LandingEbanisteria: modoCotas state
  animando,    \* animRef holds an animation frame that has not run yet
  canvasKey,   \* LandingEbanisteria: canvasKey state, the key of <VisorCanvas>
  version,     \* which PiezasManual of VisorCanvas.jsx is built: 1 (lines 110-270)
               \* or 2 (lines 495-737)
  keys,        \* keys.current: the set of keys whose entry is true
  posB,        \* posB.current
  rotB,        \* rotB.current (version 1), angles in 1/10000 rad
  groupB,      \* groupBRef.current: position and rotation of the moving group
  triggerReset,\* the triggerReset prop (its value only matters by changing)
  frame,       \* the last useFrame call: its delta (ms) and its local moved
  cache,       \* useLoader's cache, by model (its STL url): "none", "pending"
               \* or "loaded"
  visor        \* the mounted <VisorCanvas>: its key, the model whose url
               \* PiezasManual loads, and what the Suspense shows: "fallback"
               \* or the model whose geometry PiezasManual rendered
  ,
  cortadas     \* the two <PiezaCortada> BloquesAnimados mounted last: the
               \* familia prop, its configuration, and for pieces A and B
               \* what CSG.evaluate did at each cut and the geometry of
               \* the useMemo
  ,
  huerfanos,   \* requested animation frames that animRef.current no longer
               \* names and that have not run yet
  cola,        \* the updates of progreso that React has queued and not yet
               \* processed, with the state they start from
  fijado       \* history: the value the last user action gave progreso, when
               \* that action was one that cancels the animation; else -1
  ,
  montajes     \* the progress-driven <VisorCanvas> as rendered last: whether
               \* its two <PiezaCortada> are mounted, and how many times
               \* their useMemo ran buildCortadaGeo since it mounted
  ,
  diag         \* SimuladorDiagnostico3D: its five states, whether the
               \* onComplete prop is a function, and as history the calls of
               \* onComplete since mount or retry with the option last sent

solverVars == <<rawGeo, pc, ensamble, geo, memo>>
visorVars  == <<progreso, modelo, modoCotas, animando, canvasKey>>
manualVars == <<version, keys, posB, rotB, groupB, triggerReset, frame>>
cargaVars  == <<cache, visor>>
corteVars  == <<cortadas>>
animVars   == <<huerfanos, cola, fijado>>
memoVars   == <<montajes>>
diagVars   == <<diag>>
vars       == <<rawGeo, pc, ensamble, geo, memo,
               progreso, modelo, modoCotas, animando, canvasKey,
               version, keys, posB, rotB, groupB, triggerReset, frame,
               cache, visor, cortadas, huerfanos, cola, fijado, montajes, diag>>

(***************************************************************************)
(* Bounds of the model.                                                    *)
(***************************************************************************)
MaxTris == 3

\* handleSelectModelo is followed until canvasKey reaches this value
MaxCanvasKey == 2

\* frames are followed while the moving group stays within this many
\* clamped steps of its start pose, on every coordinate and angle
MaxTravel == 1

\* at most this many updates of progreso wait in React's queue
MaxCola == 2

\* at most this many requested frames are left without a name in animRef
MaxHuerfanos == 1

\* annotation lists hold up to this many tolerances
MaxCotas == 3

\* the useMemo of the cut pieces are followed up to this many runs
MaxBuilds == 2

(***************************************************************************)
(* Generic helpers.                                                        *)
(***************************************************************************)
Min(S) == CHOOSE m \in S : \A n \in S : m <= n
Max(S) == CHOOSE m \in S : \A n \in S : m >= n
Range(f) == {f[i] : i \in DOMAIN f}

(***************************************************************************)
(* The triangles a loaded STL file may hold (raw file coordinates).        *)
(*   TA1, TA2  a wide low plate (they share two vertices)                  *)
(*   TB1       a narrower piece above it                                   *)
(*   TB2       touches TB1 only within the quantization tolerance          *)
(*             (x = 3999 against x = 4000)                                 *)
(*   TC        a bridge from the plate to TB1: its first and third         *)
(*             vertices are plate vertices, its second a TB1 vertex        *)
(*   TD1, TD2  two small dowels of equal size, above / below the gap       *)
(***************************************************************************)
TA1 == << <<0, 0, 0>>, <<11000, 3000, 0>>, <<0, 3000, 4000>> >>
TA2 == << <<0, 0, 0>>, <<11000, 0, 4000>>, <<11000, 3000, 0>> >>
TB1 == << <<4000, 5000, 2000>>, <<7000, 9000, 2000>>, <<4000, 9000, 5000>> >>
TB2 == << <<3999, 5000, 2000>>, <<2000, 7000, 1000>>, <<3000, 6000, 3000>> >>
TC  == << <<0, 3000, 4000>>, <<4000, 5000, 2000>>, <<11000, 3000, 0>> >>
TD1 == << <<5000, 4000, 1500>>, <<5500, 4500, 2000>>, <<5000, 4500, 2500>> >>
TD2 == << <<8000, 3200, 1500>>, <<8500, 3700, 2000>>, <<8000, 3700, 2500>> >>

TrianglePool == {TA1, TA2, TB1, TB2, TC, TD1, TD2}

Axes == {"x", "y", "z"}
\* { x: 0, y: 1, z: 2 }[axis], as a 1-based tuple index
AxisIndex(axis) == CASE axis = "x" -> 1 [] axis = "y" -> 2 [] axis = "z" -> 3

(***************************************************************************)
(* useMemo, first part: clone, computeBoundingBox, center, scale.          *)
(***************************************************************************)
RawVerts(raw) == [i \in 0..(3 * Len(raw) - 1) |-> raw[(i \div 3) + 1][(i % 3) + 1]]

RawLo(raw, a) == Min({raw[k][j][a] : k \in 1..Len(raw), j \in 1..3})
RawHi(raw, a) == Max({raw[k][j][a] : k \in 1..Len(raw), j \in 1..3})

\* Math.max(origSize.x, origSize.y, origSize.z)
MaxDim(raw) ==
  IF raw = <<>> THEN 0
  ELSE Max({RawHi(raw, a) - RawLo(raw, a) : a \in 1..3})

\* geo.center(); geo.scale(escala, escala, escala) with escala = 5.5 / MaxDim,
\* in W units (1 / (40 * MaxDim)): (c - (lo+hi)/2) * 5.5 / M * 40 M
ScaleCoord(raw, a, c) == 110 * (2 * c - (RawLo(raw, a) + RawHi(raw, a)))

\* the centred and scaled position buffer (every coordinate as ScaleCoord
\* gives it) with its vertex count and M
Normalise(raw) ==
  LET verts == RawVerts(raw)
      mid2  == [a \in 1..3 |-> IF raw = <<>> THEN 0 ELSE RawLo(raw, a) + RawHi(raw, a)]
  IN  [ count |-> 3 * Len(raw),
        M     |-> MaxDim(raw),
        pos   |-> [i \in 0..(3 * Len(raw) - 1) |->
                     [a \in 1..3 |-> 110 * (2 * verts[i][a] - mid2[a])]] ]

\* M of a geometry; a buffer without vertices (M = 0) has no coordinate to
\* scale, its lengths are kept in units of 1/40
UnitM(g) == IF g.M = 0 THEN 1 ELSE g.M

\* one scene unit in W units of a geometry
SceneUnit(g) == 40 * UnitM(g)

(***************************************************************************)
(* splitMeshByComponents, vertex canonicalisation.                         *)
(***************************************************************************)
\* Math.round(v) on v = n / d, d > 0: the nearest integer, halves upward
MathRound(n, d) == (2 * n + d) \div (2 * d)

\* Math.round(pos.getX(i) * 1000): the coordinate is w / (40 M)
QuantCoord(g, w) == MathRound(25 * w, g.M)

VertexKey(g, i) == [a \in 1..3 |-> QuantCoord(g, g.pos[i][a])]

\* the loop over i: posMap keeps the first index of every key
RECURSIVE CanonLoop(_, _, _, _)
CanonLoop(g, i, posMap, canon) ==
  IF i >= g.count THEN canon
  ELSE LET key == VertexKey(g, i) IN
       IF key \in DOMAIN posMap
         THEN CanonLoop(g, i + 1, posMap, canon @@ (i :> posMap[key]))
         ELSE CanonLoop(g, i + 1, posMap @@ (key :> i), canon @@ (i :> i))

Canon(g) == CanonLoop(g, 0, <<>>, <<>>)

(***************************************************************************)
(* splitMeshByComponents, union-find.                                      *)
(***************************************************************************)
\* find(a) with its path halving: the root found and the parent array it
\* leaves.  The while loop is run for at most `fuel` iterations; a walk that
\* needs more is reported as root -1 (it would not end).
RECURSIVE FindLoop(_, _, _)
FindLoop(parent, a, fuel) ==
  IF parent[a] = a THEN [root |-> a, parent |-> parent]
  ELSE IF fuel = 0 THEN [root |-> -1, parent |-> parent]
  ELSE LET halved == [parent EXCEPT ![a] = parent[parent[a]]]
       IN  FindLoop(halved, halved[a], fuel - 1)

find(parent, a) == FindLoop(parent, a, 2 * Cardinality(DOMAIN parent) + 2)

\* Math.floor(nVert / 3)
NumTris(g) == g.count \div 3

\* parent[r] = s, when r is an index of the array
SetParent(parent, r, s) ==
  IF r \in DOMAIN parent THEN [parent EXCEPT ![r] = s] ELSE parent

\* a union loop that joins only the first two vertices of the triangle
UnionTriangle_SkipsThirdVertex(canon, parent, t) ==
  LET fa == find(parent, canon[3 * t])
      fb == find(fa.parent, canon[3 * t + 1])
  IN  IF fa.root # fb.root THEN SetParent(fb.parent, fa.root, fb.root) ELSE fb.parent

\* one iteration of the union loop, for triangle t
UnionTriangle(canon, parent, t) ==
  LET fa  == find(parent, canon[3 * t])
      fb  == find(fa.parent, canon[3 * t + 1])
      fc  == find(fb.parent, canon[3 * t + 2])
      p1  == IF fa.root # fb.root THEN SetParent(fc.parent, fa.root, fb.root)
                                  ELSE fc.parent
      fbc == find(p1, canon[3 * t + 1])
  IN  IF fbc.root # fc.root THEN SetParent(fbc.parent, fbc.root, fc.root)
                            ELSE fbc.parent

RECURSIVE UnionLoop(_, _, _, _)
UnionLoop(canon, parent, t, numTris) ==
  IF t >= numTris THEN parent
  ELSE UnionLoop(canon, UnionTriangle(canon, parent, t), t + 1, numTris)

\* the parent array after the union loop
ParentAfterUnions(g) ==
  UnionLoop(Canon(g), [i \in 0..(g.count - 1) |-> i], 0, NumTris(g))

\* a grouping that keeps only the last triangle of each root
GroupAdd_Overwrites(groups, root, t) ==
  IF \E k \in 1..Len(groups) : groups[k].root = root
    THEN [k \in 1..Len(groups) |->
            IF groups[k].root = root
              THEN [groups[k] EXCEPT !.tris = <<t>>]
              ELSE groups[k]]
    ELSE Append(groups, [root |-> root, tris |-> <<t>>])

\* groups.get(root).push(t) on the groups Map, kept in insertion order as
\* <<[root, tris]>>
GroupAdd(groups, root, t) ==
  IF \E k \in 1..Len(groups) : groups[k].root = root
    THEN [k \in 1..Len(groups) |->
            IF groups[k].root = root
              THEN [groups[k] EXCEPT !.tris = Append(@, t)]
              ELSE groups[k]]
    ELSE Append(groups, [root |-> root, tris |-> <<t>>])

RECURSIVE GroupLoop(_, _, _, _, _)
GroupLoop(canon, parent, t, numTris, groups) ==
  IF t >= numTris THEN groups
  ELSE LET f == find(parent, canon[3 * t])
       IN  GroupLoop(canon, f.parent, t + 1, numTris, GroupAdd(groups, f.root, t))

Groups(g) == GroupLoop(Canon(g), ParentAfterUnions(g), 0, NumTris(g), <<>>)

(***************************************************************************)
(* Sub-mesh construction: positions of the listed triangles, bounding box. *)
(***************************************************************************)
\* orig = tris[Math.floor(vi/3)]*3 + (vi%3) for vi < tris.length * 3
OrigVerts(tris) == {tris[k] * 3 + j : k \in 1..Len(tris), j \in 0..2}

\* computeBoundingBox: an empty position buffer leaves the box empty
\* (min = +Infinity, max = -Infinity), recorded by the flag
ComputeBoundingBox(g, tris) ==
  IF tris = <<>>
    THEN [empty |-> TRUE, min |-> <<0, 0, 0>>, max |-> <<0, 0, 0>>]
    ELSE [empty |-> FALSE,
          min |-> [a \in 1..3 |-> Min({g.pos[i][a] : i \in OrigVerts(tris)})],
          max |-> [a \in 1..3 |-> Max({g.pos[i][a] : i \in OrigVerts(tris)})]]

BuildGeo(g, tris) == [tris |-> tris, boundingBox |-> ComputeBoundingBox(g, tris)]

\* boundingBox.getSize(sv), one component (zero for an empty box)
BoxSize(b, a) == IF b.empty THEN 0 ELSE b.max[a] - b.min[a]

\* sv.x*sv.y*sv.z.  Sizes are multiples of 220 W units (twice a raw length
\* times 110); volumes are only compared with each other, so the product is
\* taken of the sizes / 220 and kept as <<high, low>> digits in base 10000
\* to stay within TLC's integers.
Volume(b) ==
  LET sx == BoxSize(b, 1) \div 220
      sy == BoxSize(b, 2) \div 220
      sz == BoxSize(b, 3) \div 220
      xy == sx * sy
      lo == (xy % 10000) * sz
  IN  << (xy \div 10000) * sz + (lo \div 10000), lo % 10000 >>

\* a comparator that sorts by ascending volume: va - vb
SortCompare_Ascending(a, b) ==
  LET va == Volume(a.boundingBox)
      vb == Volume(b.boundingBox)
  IN  IF vb[1] # va[1] THEN (IF va[1] > vb[1] THEN 1 ELSE -1)
      ELSE IF vb[2] # va[2] THEN (IF va[2] > vb[2] THEN 1 ELSE -1)
      ELSE 0

\* the comparator (a, b) => vb - va, as its sign
SortCompare(a, b) ==
  LET va == Volume(a.boundingBox)
      vb == Volume(b.boundingBox)
  IN  IF vb[1] # va[1] THEN (IF vb[1] > va[1] THEN 1 ELSE -1)
      ELSE IF vb[2] # va[2] THEN (IF vb[2] > va[2] THEN 1 ELSE -1)
      ELSE 0

\* Array.prototype.sort is stable: e goes before the first element the
\* comparator puts after it
RECURSIVE SortInsert(_, _)
SortInsert(sorted, e) ==
  IF sorted = <<>> THEN <<e>>
  ELSE IF SortCompare(Head(sorted), e) > 0 THEN <<e>> \o sorted
  ELSE <<Head(sorted)>> \o SortInsert(Tail(sorted), e)

RECURSIVE SortGeos(_)
SortGeos(allGeos) ==
  IF allGeos = <<>> THEN <<>>
  ELSE SortInsert(SortGeos(SubSeq(allGeos, 1, Len(allGeos) - 1)),
                  allGeos[Len(allGeos)])

\* a list that always holds a geometry, empty when no group was found
AllGeos_NeverEmpty(g) ==
  LET groups == Groups(g)
  IN  IF groups = <<>>
        THEN << BuildGeo(g, <<>>) >>
        ELSE [k \in 1..Len(groups) |-> BuildGeo(g, groups[k].tris)]

\* allGeos before the sort: one geometry per group, in Map order
AllGeos(g) ==
  LET groups == Groups(g)
  IN  [k \in 1..Len(groups) |-> BuildGeo(g, groups[k].tris)]

splitMeshByComponents(g) == SortGeos(AllGeos(g))

(***************************************************************************)
(* splitMeshGeometrically: the fallback cut at the midpoint of an axis.    *)
(***************************************************************************)
\* c <= mid, with c = (v0 + v1 + v2) / 3 and mid = (lo + hi) / 2
CentroidBelowMid(g, ai, t) ==
  LET lo == Min({g.pos[i][ai] : i \in 0..(g.count - 1)})
      hi == Max({g.pos[i][ai] : i \in 0..(g.count - 1)})
  IN  2 * (g.pos[3 * t][ai] + g.pos[3 * t + 1][ai] + g.pos[3 * t + 2][ai])
        <= 3 * (lo + hi)

\* the triangles of 0..nTris-1 satisfying (or not) the test, in loop order
RECURSIVE TrisWhere(_, _, _, _, _)
TrisWhere(g, ai, t, below, acc) ==
  IF t >= NumTris(g) THEN acc
  ELSE TrisWhere(g, ai, t + 1, below,
                 IF CentroidBelowMid(g, ai, t) = below THEN Append(acc, t) ELSE acc)

splitMeshGeometrically(g, axis) ==
  << BuildGeo(g, TrisWhere(g, AxisIndex(axis), 0, TRUE, <<>>)),
     BuildGeo(g, TrisWhere(g, AxisIndex(axis), 0, FALSE, <<>>)) >>

(***************************************************************************)
(* PiezasManual, useMemo: classification and separated start pose.         *)
(***************************************************************************)
\* partes[0] of an empty list
UndefinedGeo == [undefined |-> TRUE]
IsUndefined(p) == "undefined" \in DOMAIN p

\* SEP = 2.8 scene units, in W units of g
SEP(g) == 112 * UnitM(g)

\* twice the centre of a box along axis index a: min + max
Centre2(p, a) == p.boundingBox.min[a] + p.boundingBox.max[a]

\* c1 <= c2 for the centres along a; an empty box has a NaN centre and
\* every comparison with NaN is false
CentreLE(p1, p2, a) ==
  /\ ~p1.boundingBox.empty
  /\ ~p2.boundingBox.empty
  /\ Centre2(p1, a) <= Centre2(p2, a)

\* step 4: the reference coordinate is Z for axis 'z' and Y otherwise
ClassifyAxis(axis) == IF axis = "z" THEN 3 ELSE 2

\* step 4: [geoA, geoB]
Classify(p1, p2, axis) ==
  IF CentreLE(p1, p2, ClassifyAxis(axis)) THEN <<p1, p2>> ELSE <<p2, p1>>

\* step 5: (g.min.y + g.max.y) / 2 > midY, midY = (geoA.max.y + geoB.min.y) / 2
AboveMidY(p, geoA, geoB) ==
  /\ ~p.boundingBox.empty /\ ~geoA.boundingBox.empty /\ ~geoB.boundingBox.empty
  /\ Centre2(p, 2) > geoA.boundingBox.max[2] + geoB.boundingBox.min[2]

\* partes.slice(2).filter(...) when allComps, [] otherwise
AuxGeos(partes, geoA, geoB, allComps) ==
  IF allComps
    THEN SelectSeq(SubSeq(partes, 3, Len(partes)),
                   LAMBDA p : AboveMidY(p, geoA, geoB))
    ELSE <<>>

\* step 6.  A component computed from an empty box is +-Infinity or NaN in
\* the source: it is listed in nonFinite and carried as 0.
StartPos(g, geoA, geoB, axis) ==
  LET a == geoA.boundingBox
      b == geoB.boundingBox
  IN  CASE axis = "x" ->
             [x |-> SEP(g),
              y |-> IF a.empty \/ b.empty THEN 0 ELSE -(b.max[2] - a.max[2]),
              z |-> 0,
              nonFinite |-> IF a.empty \/ b.empty THEN {"y"} ELSE {}]
        [] axis = "z" ->
             [x |-> 0, y |-> 0,
              z |-> IF a.empty THEN 0 ELSE a.max[3] + SEP(g),
              nonFinite |-> IF a.empty THEN {"z"} ELSE {}]
        [] OTHER ->
             [x |-> 0,
              y |-> IF a.empty THEN 0 ELSE a.max[2] + SEP(g),
              z |-> 0,
              nonFinite |-> IF a.empty THEN {"y"} ELSE {}]

\* g.translate(dx, dy, dz); g.computeBoundingBox()
Translate(p, d) ==
  [p EXCEPT !.boundingBox.min = [a \in 1..3 |-> @[a] + d[a]],
            !.boundingBox.max = [a \in 1..3 |-> @[a] + d[a]]]

\* [...list].sort((a, b) => a.k - b.k), stable; list holds [k, v] records
RECURSIVE InsertByKey(_, _)
InsertByKey(sorted, e) ==
  IF sorted = <<>> THEN <<e>>
  ELSE IF Head(sorted).k > e.k THEN <<e>> \o sorted
  ELSE <<Head(sorted)>> \o InsertByKey(Tail(sorted), e)

RECURSIVE SortByKey(_)
SortByKey(list) ==
  IF list = <<>> THEN <<>>
  ELSE InsertByKey(SortByKey(SubSeq(list, 1, Len(list) - 1)), list[Len(list)])

\* toSceneXZ of a hole given in original STL coordinates
ToSceneXZ(raw, h) == [x |-> ScaleCoord(raw, 1, h.x), z |-> ScaleCoord(raw, 3, h.z)]

\* step 7: the dowels kept in the base are moved onto geoA's top face, and
\* onto the holes when there is a hole for each
AuxInBase(raw, geoA, auxGeos, holePositions) ==
  LET top2 == 2 * geoA.boundingBox.max[2]
  IN  IF holePositions # <<>> /\ Len(holePositions) >= Len(auxGeos)
        THEN LET sceneHoles == SortByKey([k \in 1..Len(holePositions) |->
                                  [k |-> ToSceneXZ(raw, holePositions[k]).x,
                                   v |-> ToSceneXZ(raw, holePositions[k])]])
                 sorted == SortByKey([k \in 1..Len(auxGeos) |->
                                  [k |-> Centre2(auxGeos[k], 1), v |-> auxGeos[k]]])
             IN  [k \in 1..Len(sorted) |->
                    Translate(sorted[k].v,
                      << (2 * sceneHoles[k].v.x - Centre2(sorted[k].v, 1)) \div 2,
                         (top2 - Centre2(sorted[k].v, 2)) \div 2,
                         (2 * sceneHoles[k].v.z - Centre2(sorted[k].v, 3)) \div 2 >>)]
        ELSE [k \in 1..Len(auxGeos) |->
                Translate(auxGeos[k],
                          <<0, (top2 - Centre2(auxGeos[k], 2)) \div 2, 0>>)]

\* steps 1 and 2: the list of parts
Partes(g, e, componentes) ==
  IF Len(componentes) < 2 /\ e.geoSplit
    THEN splitMeshGeometrically(g, e.axis)
    ELSE componentes

\* a degenerate result that hands the only piece to the moving group
SinSeparacion_PieceInMovingGroup(g, componentes, partes) ==
  [componentes |-> componentes,
   partes     |-> partes,
   geoA       |-> IF partes = <<>> THEN UndefinedGeo ELSE partes[1],
   auxBase    |-> <<>>,
   upperGroup |-> partes,
   startPos   |-> [x |-> 0, y |-> SEP(g), z |-> 0, nonFinite |-> {}]]

\* step 3, no separation possible: the result for fewer than two parts
SinSeparacion(g, componentes, partes) ==
  [componentes |-> componentes,
   partes     |-> partes,
   geoA       |-> IF partes = <<>> THEN UndefinedGeo ELSE partes[1],
   auxBase    |-> <<>>,
   upperGroup |-> <<>>,
   startPos   |-> [x |-> 0, y |-> SEP(g), z |-> 0, nonFinite |-> {}]]

\* the useMemo callback from step 2 on: g is the centred and scaled
\* geometry and componentes the result of step 1, splitMeshByComponents(g)
UseMemo(raw, g, componentes, e) ==
  LET partes == Partes(g, e, componentes)
  IN  IF Len(partes) < 2
        THEN SinSeparacion(g, componentes, partes)
        ELSE LET ab      == Classify(partes[1], partes[2], e.axis)
                 geoA    == ab[1]
                 geoB    == ab[2]
                 auxGeos == AuxGeos(partes, geoA, geoB, e.allComps)
                 start   == StartPos(g, geoA, geoB, e.axis)
             IN  IF e.auxInBase
                   THEN [componentes |-> componentes,
                         partes     |-> partes,
                         geoA       |-> geoA,
                         auxBase    |-> AuxInBase(raw, geoA, auxGeos, e.holePositions),
                         upperGroup |-> <<geoB>>,
                         startPos   |-> start]
                   ELSE [componentes |-> componentes,
                         partes     |-> partes,
                         geoA       |-> geoA,
                         auxBase    |-> <<>>,
                         upperGroup |-> <<geoB>> \o auxGeos,
                         startPos   |-> start]

\* the useMemo of version 1 (lines 124-162): the parts are classified and
\* the dowels filtered on Y as in version 2, axis 'z' is not known (it takes
\* the else branch of the start position), there is no geometric fallback
\* and no dowel stays in the base
UseMemo1(raw, g, componentes, e) ==
  UseMemo(raw, g, componentes,
          [e EXCEPT !.axis = IF @ = "x" THEN "x" ELSE "y",
                    !.auxInBase = FALSE,
                    !.geoSplit = FALSE,
                    !.holePositions = <<>>])

(***************************************************************************)
(* PiezasManual, keyboard control.  Times are in milliseconds, positions   *)
(* in W units of the mounted geometry, angles in 1/10000 rad.              *)
(***************************************************************************)
\* units / second
MOVE_SPEED == 3
\* radians / second, in tenths
ROT_SPEED == 18

\* new THREE.Vector3(), new THREE.Euler()
Zero3 == [x |-> 0, y |-> 0, z |-> 0, nonFinite |-> {}]
ZeroEuler == [x |-> 0, y |-> 0, z |-> 0]

\* the keys the user is followed pressing (up and down on Y, one way on X,
\* the turn on X of version 1, forward on Z of version 2), and the keys each
\* version reads in useFrame
KeyNames == {"w", "s", "d", "i", "h"}
ReadKeys(ver) == IF ver = 1 THEN {"w", "s", "a", "d", "i", "k"}
                            ELSE {"w", "s", "a", "d", "h", "j"}

\* an applyStart that leaves the rotation as it is
applyStart_KeepsRotation(startPos) ==
  [posB   |-> startPos,
   rotB   |-> rotB,
   groupB |-> [position |-> startPos, rotation |-> groupB.rotation]]

\* applyStart: posB (and rotB in version 1, which is zero throughout in
\* version 2) and the group, whose ref is attached when the effects run
applyStart(startPos) ==
  [posB   |-> startPos,
   rotB   |-> ZeroEuler,
   groupB |-> [position |-> startPos, rotation |-> ZeroEuler]]

\* Math.min(delta, 0.05)
ClampDelta(delta) == Min({delta, 50})

\* MOVE_SPEED * d and ROT_SPEED * d
MoveStep(g, d) == (MOVE_SPEED * SceneUnit(g) * d) \div 1000
RotStep(d) == ROT_SPEED * d

\* p[c] += s; a coordinate that is not finite stays as it is
AddTo(p, c, s) == IF c \in p.nonFinite THEN p ELSE [p EXCEPT ![c] = @ + s]

\* a frame callback that moves by a full step whatever the delta
useFrame_FixedStep(delta) ==
  LET m  == MoveStep(geo, 50)
      p1 == IF "w" \in keys THEN AddTo(posB, "y", m) ELSE posB
      p2 == IF "s" \in keys THEN AddTo(p1, "y", -m) ELSE p1
      p3 == IF "a" \in keys THEN AddTo(p2, "x", -m) ELSE p2
      p4 == IF "d" \in keys THEN AddTo(p3, "x", m) ELSE p3
      p5 == IF version = 2 /\ "h" \in keys THEN AddTo(p4, "z", m) ELSE p4
      p6 == IF version = 2 /\ "j" \in keys THEN AddTo(p5, "z", -m) ELSE p5
      r1 == IF version = 1 /\ "i" \in keys
              THEN [rotB EXCEPT !.x = @ + RotStep(50)] ELSE rotB
      r2 == IF version = 1 /\ "k" \in keys
              THEN [r1 EXCEPT !.y = @ + RotStep(50)] ELSE r1
      moved == keys \cap ReadKeys(version) # {}
  IN  [posB   |-> p6,
       rotB   |-> r2,
       moved  |-> moved,
       groupB |-> IF moved
                    THEN [position |-> p6,
                          rotation |-> IF version = 1 THEN r2 ELSE groupB.rotation]
                    ELSE groupB]

\* a frame callback that integrates the raw delta
useFrame_NoClamp(delta) ==
  LET m  == MoveStep(geo, delta)
      p1 == IF "w" \in keys THEN AddTo(posB, "y", m) ELSE posB
      p2 == IF "s" \in keys THEN AddTo(p1, "y", -m) ELSE p1
      p3 == IF "a" \in keys THEN AddTo(p2, "x", -m) ELSE p2
      p4 == IF "d" \in keys THEN AddTo(p3, "x", m) ELSE p3
      p5 == IF version = 2 /\ "h" \in keys THEN AddTo(p4, "z", m) ELSE p4
      p6 == IF version = 2 /\ "j" \in keys THEN AddTo(p5, "z", -m) ELSE p5
      r1 == IF version = 1 /\ "i" \in keys
              THEN [rotB EXCEPT !.x = @ + RotStep(delta)] ELSE rotB
      r2 == IF version = 1 /\ "k" \in keys
              THEN [r1 EXCEPT !.y = @ + RotStep(delta)] ELSE r1
      moved == keys \cap ReadKeys(version) # {}
  IN  [posB   |-> p6,
       rotB   |-> r2,
       moved  |-> moved,
       groupB |-> IF moved
                    THEN [position |-> p6,
                          rotation |-> IF version = 1 THEN r2 ELSE groupB.rotation]
                    ELSE groupB]

\* the useFrame callback: what it leaves in posB, rotB and the group, and
\* its local moved
useFrame(delta) ==
  LET d  == ClampDelta(delta)
      m  == MoveStep(geo, d)
      p1 == IF "w" \in keys THEN AddTo(posB, "y", m) ELSE posB
      p2 == IF "s" \in keys THEN AddTo(p1, "y", -m) ELSE p1
      p3 == IF "a" \in keys THEN AddTo(p2, "x", -m) ELSE p2
      p4 == IF "d" \in keys THEN AddTo(p3, "x", m) ELSE p3
      p5 == IF version = 2 /\ "h" \in keys THEN AddTo(p4, "z", m) ELSE p4
      p6 == IF version = 2 /\ "j" \in keys THEN AddTo(p5, "z", -m) ELSE p5
      r1 == IF version = 1 /\ "i" \in keys
              THEN [rotB EXCEPT !.x = @ + RotStep(d)] ELSE rotB
      r2 == IF version = 1 /\ "k" \in keys
              THEN [r1 EXCEPT !.y = @ + RotStep(d)] ELSE r1
      moved == keys \cap ReadKeys(version) # {}
  IN  [posB   |-> p6,
       rotB   |-> r2,
       moved  |-> moved,
       groupB |-> IF moved
                    THEN [position |-> p6,
                          rotation |-> IF version = 1 THEN r2 ELSE groupB.rotation]
                    ELSE groupB]

(***************************************************************************)
(* The manual viewer as a state machine: STLLoader fills the buffer, then  *)
(* PiezasManual renders, its useMemo runs and its effects place the        *)
(* moving group and attach the key listeners; from then on keys, frames    *)
(* and resets arrive in any order.                                         *)
(***************************************************************************)
\* the ensamble props PiezasManual can be given; holePositions null is <<>>.
\* holePositions is read only under auxInBase, so it is varied only there.
HoleSets == { <<>>, << [x |-> 5000, z |-> 2000] >> }

EnsambleConfigs ==
  { e \in [axis : Axes, allComps : BOOLEAN, auxInBase : BOOLEAN, geoSplit : BOOLEAN,
           holePositions : HoleSets] :
      e.auxInBase \/ e.holePositions = <<>> }

\* the defaults of the destructuring
EnsambleDefault ==
  [axis |-> "y", allComps |-> FALSE, auxInBase |-> FALSE, geoSplit |-> FALSE,
   holePositions |-> <<>>]

\* the ids of the catalogue
Modelos == {"N1", "N2", "N3", "N4", "N5", "N6", "N7", "N8", "N9", "N10", "N11"}

\* MODELO_DEFAULT = CATEGORIAS[0].items[1]
MODELO_DEFAULT == "N2"

\* the first render: <VisorCanvas key={0}> mounts, PiezasManual asks
\* useLoader for the url of its model and suspends
PrimeraCarga ==
  [cache |-> [m \in Modelos |-> IF m = MODELO_DEFAULT THEN "pending" ELSE "none"],
   visor |-> [key |-> 0, url |-> MODELO_DEFAULT, mostrado |-> "fallback"]]

\* SimuladorDiagnostico3D as mounted, and as handleRetry leaves it
\* (separationOffset in hundredths)
DiagInicial(conOnComplete) ==
  [separationOffset   |-> 0,
   selectedErrorId    |-> "null",
   phase              |-> "inspection",
   hasUsedDisassembly |-> FALSE,
   submitted          |-> FALSE,
   onComplete         |-> conOnComplete,
   llamadas           |-> 0,
   enviado            |-> "null"]

\* a <VisorCanvas> that has just mounted at progreso 0
SinMontajes == [cortada |-> FALSE, builds |-> 0]

\* no update of progreso is queued
ColaVacia == [base |-> 0, updates |-> <<>>]

\* no <PiezaCortada> was mounted yet
SinCortadas == [familia |-> ""]

NoMemo ==
  [componentes |-> <<>>, partes |-> <<>>, geoA |-> UndefinedGeo, auxBase |-> <<>>, upperGroup |-> <<>>,
   startPos |-> [x |-> 0, y |-> 0, z |-> 0, nonFinite |-> {}]]

Init ==
  /\ rawGeo = <<>>
  /\ pc = "loading"
  /\ ensamble = EnsambleDefault
  /\ geo = Normalise(<<>>)
  /\ memo = NoMemo
  /\ progreso = 0
  /\ modelo = MODELO_DEFAULT
  /\ modoCotas = FALSE
  /\ animando = FALSE
  /\ canvasKey = 0
  /\ version = 2
  /\ keys = {}
  /\ posB = Zero3
  /\ rotB = ZeroEuler
  /\ groupB = [position |-> Zero3, rotation |-> ZeroEuler]
  /\ triggerReset = 0
  /\ frame = [delta |-> 0, moved |-> FALSE]
  /\ cache = PrimeraCarga.cache
  /\ visor = PrimeraCarga.visor
  /\ cortadas = SinCortadas
  /\ huerfanos = 0
  /\ cola = ColaVacia
  /\ fijado = -1
  /\ montajes = SinMontajes
  /\ diag = DiagInicial(FALSE)

\* STLLoader parses one more facet of the file
LoadTriangle(t) ==
  /\ pc = "loading"
  /\ Len(rawGeo) < MaxTris
  /\ rawGeo' = Append(rawGeo, t)
  /\ UNCHANGED <<pc, ensamble, geo, memo>>
  /\ UNCHANGED visorVars
  /\ UNCHANGED manualVars
  /\ UNCHANGED cargaVars
  /\ UNCHANGED corteVars
  /\ UNCHANGED animVars
  /\ UNCHANGED memoVars
  /\ UNCHANGED diagVars

\* useLoader resolves and PiezasManual renders with the props e: the
\* useMemo centres and scales the clone, splits it and classifies the parts;
\* then the effects run: applyStart, and the key listeners on a fresh keys
RenderWith(e) ==
  /\ pc = "loading"
  /\ pc' = "mounted"
  /\ LET g           == Normalise(rawGeo)
         componentes == splitMeshByComponents(g)
     IN  /\ ensamble' = e
         /\ geo' = g
         /\ memo' = IF version = 1 THEN UseMemo1(rawGeo, g, componentes, e)
                                   ELSE UseMemo(rawGeo, g, componentes, e)
  /\ posB' = applyStart(memo'.startPos).posB
  /\ rotB' = applyStart(memo'.startPos).rotB
  /\ groupB' = applyStart(memo'.startPos).groupB
  /\ keys' = {}
  /\ cache' = [cache EXCEPT ![visor.url] = "loaded"]
  /\ visor' = [visor EXCEPT !.mostrado = visor.url]
  /\ UNCHANGED <<rawGeo, version, triggerReset, frame>>
  /\ UNCHANGED visorVars
  /\ UNCHANGED corteVars
  /\ UNCHANGED animVars
  /\ UNCHANGED memoVars
  /\ UNCHANGED diagVars

Render == \E e \in EnsambleConfigs : RenderWith(e)

Next ==
  \/ \E t \in TrianglePool : LoadTriangle(t)
  \/ Render

Spec == Init /\ [][Next]_vars

(***************************************************************************)
(* Keyboard control of the mounted viewer.                                 *)
(***************************************************************************)
\* onKeyDown: keys.current[k] = true
KeyDown(k) ==
  /\ pc = "mounted"
  /\ keys' = keys \cup {k}
  /\ UNCHANGED <<version, posB, rotB, groupB, triggerReset, frame>>
  /\ UNCHANGED solverVars
  /\ UNCHANGED visorVars
  /\ UNCHANGED cargaVars
  /\ UNCHANGED corteVars
  /\ UNCHANGED animVars
  /\ UNCHANGED memoVars
  /\ UNCHANGED diagVars

\* onKeyUp: keys.current[k] = false
KeyUp(k) ==
  /\ pc = "mounted"
  /\ keys' = keys \ {k}
  /\ UNCHANGED <<version, posB, rotB, groupB, triggerReset, frame>>
  /\ UNCHANGED solverVars
  /\ UNCHANGED visorVars
  /\ UNCHANGED cargaVars
  /\ UNCHANGED corteVars
  /\ UNCHANGED animVars
  /\ UNCHANGED memoVars
  /\ UNCHANGED diagVars

\* the frame deltas followed, in ms: no time, and a long pause (a
\* suspended tab)
Deltas == {0, 200}

\* the coordinate or angle key k drives is less than MaxTravel clamped steps
\* away from the start pose, in the direction of k
KeyRoom(k) ==
  LET limit == MaxTravel * MoveStep(geo, 50)
      start == memo.startPos
  IN  CASE k = "w" -> posB.y - start.y < limit
        [] k = "s" -> start.y - posB.y < limit
        [] k = "d" -> posB.x - start.x < limit
        [] k = "a" -> start.x - posB.x < limit
        [] k = "h" -> posB.z - start.z < limit
        [] k = "j" -> start.z - posB.z < limit
        [] k = "i" -> rotB.x < MaxTravel * RotStep(50)
        [] k = "k" -> rotB.y < MaxTravel * RotStep(50)
        [] OTHER   -> TRUE

\* the render loop calls the useFrame callback with the time since the last
\* frame
FrameTick(delta) ==
  /\ pc = "mounted"
  /\ \A k \in keys \cap ReadKeys(version) : KeyRoom(k)
  /\ posB' = useFrame(delta).posB
  /\ rotB' = useFrame(delta).rotB
  /\ groupB' = useFrame(delta).groupB
  /\ frame' = [delta |-> delta, moved |-> useFrame(delta).moved]
  /\ UNCHANGED <<version, keys, triggerReset>>
  /\ UNCHANGED solverVars
  /\ UNCHANGED visorVars
  /\ UNCHANGED cargaVars
  /\ UNCHANGED corteVars
  /\ UNCHANGED animVars
  /\ UNCHANGED memoVars
  /\ UNCHANGED diagVars

\* the parent passes another triggerReset: the effect runs applyStart
Reset ==
  /\ pc = "mounted"
  /\ triggerReset' = 1 - triggerReset
  /\ posB' = applyStart(memo.startPos).posB
  /\ rotB' = applyStart(memo.startPos).rotB
  /\ groupB' = applyStart(memo.startPos).groupB
  /\ UNCHANGED <<version, keys, frame>>
  /\ UNCHANGED solverVars
  /\ UNCHANGED visorVars
  /\ UNCHANGED cargaVars
  /\ UNCHANGED corteVars
  /\ UNCHANGED animVars
  /\ UNCHANGED memoVars
  /\ UNCHANGED diagVars

\* the STL files and the props the keyboard control is followed with: no
\* facet, one piece, two pieces; assembly on Y and on X
ManualBuffers == {<<>>, <<TA1>>, <<TA1, TB1>>}
ManualConfigs == {EnsambleDefault, [EnsambleDefault EXCEPT !.axis = "x"]}

InitManual ==
  /\ rawGeo \in ManualBuffers
  /\ pc = "loading"
  /\ ensamble = EnsambleDefault
  /\ geo = Normalise(<<>>)
  /\ memo = NoMemo
  /\ progreso = 0
  /\ modelo = MODELO_DEFAULT
  /\ modoCotas = FALSE
  /\ animando = FALSE
  /\ canvasKey = 0
  /\ version \in {1, 2}
  /\ keys = {}
  /\ posB = Zero3
  /\ rotB = ZeroEuler
  /\ groupB = [position |-> Zero3, rotation |-> ZeroEuler]
  /\ triggerReset = 0
  /\ frame = [delta |-> 0, moved |-> FALSE]
  /\ cache = PrimeraCarga.cache
  /\ visor = PrimeraCarga.visor
  /\ cortadas = SinCortadas
  /\ huerfanos = 0
  /\ cola = ColaVacia
  /\ fijado = -1
  /\ montajes = SinMontajes
  /\ diag = DiagInicial(FALSE)

NextManual ==
  \/ \E e \in ManualConfigs : RenderWith(e)
  \/ \E k \in KeyNames : KeyDown(k)
  \/ \E k \in KeyNames : KeyUp(k)
  \/ \E delta \in Deltas : FrameTick(delta)
  \/ Reset

SpecManual == InitManual /\ [][NextManual]_vars

(***************************************************************************)
(* Properties of the keyboard control.                                     *)
(***************************************************************************)
\* C11: a useFrame call with delta = 0 leaves the position and the rotation
\* of the moving group, and posB and rotB, as they were, whatever keys are
\* held; so does any number of such calls.
C11_ZeroDeltaFrameKeepsPose ==
  [][ FrameTick(0) => /\ groupB' = groupB
                      /\ posB' = posB
                      /\ rotB' = rotB ]_vars

\* the last frame had delta = 0 and found a key held that it reads, after
\* the group had been moved and turned away from its start pose
C11_Witness ==
  /\ pc = "mounted"
  /\ frame.delta = 0
  /\ frame.moved
  /\ groupB.position # memo.startPos
  /\ groupB.rotation # ZeroEuler

\* the start pose: position startPos and rotation zero, in the group and in
\* posB / rotB
AtStartPose ==
  /\ groupB.position = memo.startPos
  /\ groupB.rotation = ZeroEuler
  /\ posB = memo.startPos
  /\ rotB = ZeroEuler

\* C12: whatever keys, frames and resets came before, a change of
\* triggerReset leaves the moving group at startPos with rotation zero, and
\* posB and rotB at the same values.
C12_ResetRestoresStartPose ==
  [][ triggerReset' # triggerReset => AtStartPose' ]_vars

\* a reset has run after a frame that moved the group, with a key still held
C12_Witness ==
  /\ pc = "mounted"
  /\ triggerReset # 0
  /\ frame.moved
  /\ frame.delta > 0
  /\ keys # {}
  /\ AtStartPose

\* |a - b|
Dist(a, b) == IF a >= b THEN a - b ELSE b - a

\* C13: one frame changes each coordinate of the moving group's position by
\* at most MOVE_SPEED * 0.05 and each of its angles by at most
\* ROT_SPEED * 0.05, whatever the delta and the keys held.
C13_FrameStepClamped ==
  [][ (\E delta \in Deltas : FrameTick(delta)) =>
        /\ \A c \in {"x", "y", "z"} :
             /\ Dist(groupB'.position[c], groupB.position[c])
                  <= (MOVE_SPEED * SceneUnit(geo) * 50) \div 1000
             /\ Dist(groupB'.rotation[c], groupB.rotation[c]) <= ROT_SPEED * 50 ]_vars

\* the last frame came after more than 50 ms and moved the group
C13_Witness ==
  /\ pc = "mounted"
  /\ frame.delta > 50
  /\ frame.moved
  /\ groupB.position # memo.startPos

\* the useMemo found fewer than two parts
Degenerate == pc = "mounted" /\ Len(memo.partes) < 2

C16_ZeroTrianglesNeverPartitioned ==
  ~(pc = "mounted" /\ NumTris(geo) = 0)

\* C16, amended: partitioning a buffer without triangles raises no error:
\* it returns the empty list and the useMemo goes on; unless the geometric
\* split is enabled, the result is the one for fewer than two parts, with
\* an undefined Base.
C16_ZeroTrianglesEmptyList ==
  (pc = "mounted" /\ NumTris(geo) = 0) =>
    /\ memo.componentes = <<>>
    /\ ~ensamble.geoSplit =>
         /\ memo.partes = <<>>
         /\ IsUndefined(memo.geoA)
         /\ memo.upperGroup = <<>>

\* a file without facets was loaded and PiezasManual rendered it
C16_Witness ==
  /\ pc = "mounted"
  /\ rawGeo = <<>>
  /\ NumTris(geo) = 0
  /\ ~ensamble.geoSplit

(***************************************************************************)
(* Properties of the partitioner.                                          *)
(***************************************************************************)
Mounted == pc = "mounted"

Tris(g) == 0..(NumTris(g) - 1)

\* the rounded positions of the three vertices of a triangle
KeysOf(g, t) == {VertexKey(g, 3 * t + j) : j \in 0..2}

\* for each triangle, the triangles with a vertex at the same rounded position
Neighbours(g) ==
  LET ks == [t \in Tris(g) |-> KeysOf(g, t)]
  IN  [t \in Tris(g) |-> {u \in Tris(g) : ks[t] \cap ks[u] # {}}]

\* the triangles reachable from S through chains of neighbours
RECURSIVE Reach(_, _)
Reach(nb, S) ==
  LET grown == S \cup UNION {nb[s] : s \in S}
  IN  IF grown = S THEN S ELSE Reach(nb, grown)

\* for each triangle, the triangles a chain of shared vertices connects it to
\* (nb is bound by a quantifier so that it is computed once)
Connected(g) ==
  CHOOSE c \in {[t \in Tris(g) |-> Reach(nb, {t})] : nb \in {Neighbours(g)}} : TRUE

SameSubMesh(partes, t1, t2) ==
  \E k \in 1..Len(partes) : t1 \in Range(partes[k].tris) /\ t2 \in Range(partes[k].tris)

RECURSIVE SumLen(_)
SumLen(partes) ==
  IF partes = <<>> THEN 0 ELSE Len(Head(partes).tris) + SumLen(Tail(partes))

\* v1 >= v2 for volumes held as <<high, low>> pairs
VolGE(v1, v2) == v1[1] > v2[1] \/ (v1[1] = v2[1] /\ v1[2] >= v2[2])

\* C1: once the viewer is mounted, two triangles of the buffer are in the
\* same sub-mesh of splitMeshByComponents exactly when a chain of triangles
\* sharing a rounded vertex position connects them, whatever the buffer and
\* the order of its triangles.
C1_SameSubMeshIffConnected ==
  Mounted =>
    \A connected \in {Connected(geo)} :
      \A t1, t2 \in Tris(geo) :
        SameSubMesh(memo.componentes, t1, t2) <=> t2 \in connected[t1]

\* a mounted buffer in which two triangles that share no vertex are joined
\* through a third one
C1_Witness ==
  /\ Mounted
  /\ Len(rawGeo) = MaxTris
  /\ \E t1, t2 \in Tris(geo) :
       /\ t2 \notin Neighbours(geo)[t1]
       /\ t2 \in Connected(geo)[t1]
       /\ SameSubMesh(memo.componentes, t1, t2)

\* C2: once mounted, every triangle of the buffer is in exactly one sub-mesh
\* of splitMeshByComponents, no sub-mesh lists a triangle twice, and the
\* triangle counts add up to the number of triangles of the buffer.
C2_EveryTriangleExactlyOnce ==
  Mounted =>
    LET partes == memo.componentes
    IN  /\ \A t \in Tris(geo) :
             Cardinality({k \in 1..Len(partes) : t \in Range(partes[k].tris)}) = 1
        /\ \A k \in 1..Len(partes) :
             /\ Range(partes[k].tris) \subseteq Tris(geo)
             /\ Cardinality(Range(partes[k].tris)) = Len(partes[k].tris)
        /\ SumLen(partes) = NumTris(geo)

\* a mounted buffer split in two sub-meshes, one of them with two triangles
C2_Witness ==
  /\ Mounted
  /\ Len(memo.componentes) = 2
  /\ \E k \in 1..2 : Len(memo.componentes[k].tris) = 2

\* C3: once mounted, the list of splitMeshByComponents is in descending
\* order of bounding-box volume, and sub-meshes of equal volume stand in the
\* order in which their first triangle appears in the buffer.
C3_SortedByDescendingVolume ==
  Mounted =>
    LET partes == memo.componentes
    IN  \A k \in 1..(Len(partes) - 1) :
          /\ VolGE(Volume(partes[k].boundingBox), Volume(partes[k + 1].boundingBox))
          /\ Volume(partes[k].boundingBox) = Volume(partes[k + 1].boundingBox)
               => partes[k].tris[1] < partes[k + 1].tris[1]

\* three sub-meshes, the largest of which was not the first in the buffer,
\* followed by two of equal volume
C3_Witness ==
  /\ Mounted
  /\ Len(memo.componentes) = 3
  /\ memo.componentes[1].tris[1] > 0
  /\ Volume(memo.componentes[2].boundingBox)
       = Volume(memo.componentes[3].boundingBox)
  /\ Volume(memo.componentes[1].boundingBox)
       # Volume(memo.componentes[2].boundingBox)

(***************************************************************************)
(* Properties of the classification and of the start pose.                 *)
(***************************************************************************)
\* the useMemo classified two pieces with non-empty boxes
TwoPieces ==
  /\ Mounted
  /\ Len(memo.partes) >= 2
  /\ ~memo.partes[1].boundingBox.empty
  /\ ~memo.partes[2].boundingBox.empty

\* two sub-mesh records are the same component
SameComponent(p, q) == p.tris = q.tris

\* C5: of the two largest sub-meshes, the one whose box centre is lower
\* along the configured axis (X for 'x', Y for 'y', Z for 'z') is geoA, the
\* Base, and the other one is the first of the upper group, the Moving piece.
C5_BaseIsLowerAlongAxis ==
  TwoPieces =>
    LET a  == AxisIndex(ensamble.axis)
        p1 == memo.partes[1]
        p2 == memo.partes[2]
    IN  /\ Centre2(p1, a) < Centre2(p2, a)
             => SameComponent(memo.geoA, p1) /\ SameComponent(memo.upperGroup[1], p2)
        /\ Centre2(p2, a) < Centre2(p1, a)
             => SameComponent(memo.geoA, p2) /\ SameComponent(memo.upperGroup[1], p1)

InBaseGroup(p) == \E j \in 1..Len(memo.auxBase) : SameComponent(memo.auxBase[j], p)
InMovingGroup(p) == \E j \in 2..Len(memo.upperGroup) : SameComponent(memo.upperGroup[j], p)

\* C6: with two or more components, one of the first two is the Base, the
\* other the primary Moving piece, and every component of index >= 2 is in
\* exactly one of the Base group and the Moving group.
C6_EveryComponentAssigned ==
  TwoPieces =>
    /\ \E k \in 1..2 : /\ SameComponent(memo.geoA, memo.partes[k])
                       /\ SameComponent(memo.upperGroup[1], memo.partes[3 - k])
    /\ \A k \in 3..Len(memo.partes) :
         InBaseGroup(memo.partes[k]) # InMovingGroup(memo.partes[k])

\* the component of the start position along axis index a
StartAlong(a) == CASE a = 1 -> memo.startPos.x [] a = 2 -> memo.startPos.y [] a = 3 -> memo.startPos.z

\* C7: in the start pose the box of the Moving piece, shifted by startPos,
\* does not overlap the box of the Base along the configured axis.
C7_NoOverlapAtStart ==
  (TwoPieces /\ memo.startPos.nonFinite = {}) =>
    LET a == AxisIndex(ensamble.axis)
        A == memo.geoA.boundingBox
        B == memo.upperGroup[1].boundingBox
    IN  \/ B.min[a] + StartAlong(a) >= A.max[a]
        \/ B.max[a] + StartAlong(a) <= A.min[a]

(***************************************************************************)
(* The progress-driven viewers.  progreso is kept in tenths of a point     *)
(* (the animation advances it by 1.2), block sizes in tenths of a scene    *)
(* unit, gaps in 1/200 and block positions in 1/400 of a scene unit.       *)
(***************************************************************************)
FASE_TRAZADO == 25
FASE_CORTADO == 50
FASE_ENSAMBLE == 80

\* the catalogue entry of a model: familia and ensamble (penetration in
\* hundredths)
CATEGORIAS(m) ==
  CASE m = "N1"  -> [familia |-> "tarugo",        axis |-> "y", penetration |-> 0,  allComps |-> TRUE]
    [] m = "N2"  -> [familia |-> "caja-espiga",   axis |-> "y", penetration |-> 55, allComps |-> FALSE]
    [] m = "N3"  -> [familia |-> "horquilla",     axis |-> "y", penetration |-> 55, allComps |-> FALSE]
    [] m = "N4"  -> [familia |-> "media-madera",  axis |-> "x", penetration |-> 0,  allComps |-> FALSE]
    [] m = "N5"  -> [familia |-> "cola-milano",   axis |-> "y", penetration |-> 80, allComps |-> FALSE]
    [] m = "N6"  -> [familia |-> "tarugo",        axis |-> "y", penetration |-> 0,  allComps |-> TRUE]
    [] m = "N7"  -> [familia |-> "machihembrada", axis |-> "y", penetration |-> 40, allComps |-> FALSE]
    [] m = "N8"  -> [familia |-> "media-madera",  axis |-> "x", penetration |-> 0,  allComps |-> FALSE]
    [] m = "N9"  -> [familia |-> "media-madera",  axis |-> "x", penetration |-> 0,  allComps |-> FALSE]
    [] m = "N10" -> [familia |-> "horquilla",     axis |-> "y", penetration |-> 30, allComps |-> FALSE]
    [] m = "N11" -> [familia |-> "horquilla",     axis |-> "y", penetration |-> 0,  allComps |-> FALSE]

\* the families with a case label of their own
Familias ==
  {"caja-espiga", "tarugo", "horquilla", "media-madera", "cola-milano", "machihembrada"}

\* a cut volume { args, pos }, [x, y, z] in hundredths
Zona(args, pos) == [args |-> args, pos |-> pos]

\* a switch whose default label stands with the first case
SwitchCase_DefaultIsFirstCase(familia) ==
  IF familia \in Familias THEN familia ELSE "caja-espiga"

\* the label the switch jumps to: the case of the family, or default, which
\* stands with case 'machihembrada'
SwitchCase(familia) ==
  IF familia \in Familias THEN familia ELSE "machihembrada"

\* the stock blocks of a family, [x, y, z] in tenths, and its cut volumes
getFamiliaConfig(familia) ==
  LET label == SwitchCase(familia)
  IN  CASE label = "caja-espiga" ->
             [bloqueA   |-> <<32, 50, 25>>,
              bloqueB   |-> <<32, 50, 25>>,
              eliminarA |-> << Zona(<<110, 280, 150>>, <<0, 0, 0>>) >>,
              eliminarB |-> << Zona(<<100, 270, 140>>, <<0, 0, 140>>),
                               Zona(<<110, 110, 250>>, <<0, 150, 0>>),
                               Zona(<<110, 110, 250>>, <<0, -150, 0>>) >>]
        [] label = "tarugo" ->
             [bloqueA   |-> <<35, 45, 25>>,
              bloqueB   |-> <<35, 45, 25>>,
              eliminarA |-> << Zona(<<50, 50, 120>>, <<0, 90, 0>>),
                               Zona(<<50, 50, 120>>, <<0, -90, 0>>) >>,
              eliminarB |-> << Zona(<<50, 50, 120>>, <<0, 90, 0>>),
                               Zona(<<50, 50, 120>>, <<0, -90, 0>>) >>]
        [] label = "horquilla" ->
             [bloqueA   |-> <<35, 45, 25>>,
              bloqueB   |-> <<35, 45, 25>>,
              eliminarA |-> << Zona(<<120, 180, 250>>, <<0, 0, 0>>) >>,
              eliminarB |-> << Zona(<<105, 250, 250>>, <<-100, 0, 0>>),
                               Zona(<<105, 250, 250>>, <<100, 0, 0>>) >>]
        [] label = "media-madera" ->
             [bloqueA   |-> <<40, 40, 25>>,
              bloqueB   |-> <<40, 40, 25>>,
              eliminarA |-> << Zona(<<400, 200, 130>>, <<0, 100, 60>>) >>,
              eliminarB |-> << Zona(<<400, 200, 130>>, <<0, -100, 60>>) >>]
        [] label = "cola-milano" ->
             [bloqueA   |-> <<35, 50, 25>>,
              bloqueB   |-> <<35, 50, 25>>,
              eliminarA |-> << Zona(<<140, 320, 150>>, <<0, 0, 0>>) >>,
              eliminarB |-> << Zona(<<80, 120, 250>>, <<-90, 0, 0>>),
                               Zona(<<80, 120, 250>>, <<90, 0, 0>>) >>]
        [] label = "machihembrada" ->
             [bloqueA   |-> <<40, 25, 30>>,
              bloqueB   |-> <<40, 25, 30>>,
              eliminarA |-> << Zona(<<400, 60, 100>>, <<0, 0, 50>>) >>,
              eliminarB |-> << Zona(<<400, 55, 100>>, <<0, 0, -50>>) >>]

\* progreso >= fase ? Math.min(1, (progreso - fase) / span) : 0, as the
\* numerator over 10 * span
Ramp(p, fase, span) ==
  IF p >= 10 * fase THEN Min({10 * span, p - 10 * fase}) ELSE 0

\* a transform whose gap is 1.0 * tUnion: it opens while the union advances
BloquesAnimados_GapOpens(familia, p) ==
  LET cfg      == getFamiliaConfig(familia)
      tTrazado == Ramp(p, FASE_TRAZADO, 8)
      tCortado == Ramp(p, FASE_CORTADO, 6)
      tUnion   == Ramp(p, FASE_ENSAMBLE, 100 - FASE_ENSAMBLE)
      gap      == tUnion
  IN  [tTrazado       |-> tTrazado,
       tCortado       |-> tCortado,
       tUnion         |-> tUnion,
       opTrazado      |-> IF tCortado > 0 THEN 0 ELSE 9 * tTrazado,
       mostrarSolido  |-> tCortado < 60,
       mostrarCortado |-> tCortado > 0,
       gap            |-> gap,
       yA             |-> -(gap + 20 * cfg.bloqueA[2]),
       yB             |-> gap + 20 * cfg.bloqueB[2]]

\* BloquesAnimados: tTrazado over 80, tCortado over 60, tUnion over 200,
\* opTrazado over 800, gap in 1/200, yA and yB in 1/400
BloquesAnimados(familia, p) ==
  LET cfg      == getFamiliaConfig(familia)
      tTrazado == Ramp(p, FASE_TRAZADO, 8)
      tCortado == Ramp(p, FASE_CORTADO, 6)
      tUnion   == Ramp(p, FASE_ENSAMBLE, 100 - FASE_ENSAMBLE)
      gap      == 200 - tUnion
  IN  [tTrazado       |-> tTrazado,
       tCortado       |-> tCortado,
       tUnion         |-> tUnion,
       opTrazado      |-> IF tCortado > 0 THEN 0 ELSE 9 * tTrazado,
       mostrarSolido  |-> tCortado < 60,
       mostrarCortado |-> tCortado > 0,
       gap            |-> gap,
       yA             |-> -(gap + 20 * cfg.bloqueA[2]),
       yB             |-> gap + 20 * cfg.bloqueB[2]]

\* STLPiezas: t over 500, gap in 1/200; the lower half sits at -gap and the
\* upper half at +gap
STLPiezas(p) ==
  LET ensamblado == p >= 1000
      t   == Max({0, Min({500, p - 10 * FASE_CORTADO})})
      gap == IF ensamblado THEN 0 ELSE 500 - t
  IN  [ensamblado |-> ensamblado, t |-> t, gap |-> gap, yInferior |-> -gap, ySuperior |-> gap]

\* what each VisorCanvas mounts
VisorCanvas5(p) == IF p >= 1000 THEN "STLEnsamblado" ELSE "BloquesAnimados"
VisorCanvas4(p) == IF p >= 10 * FASE_CORTADO THEN "STLPiezas" ELSE "BloquesEnBruto"

\* FASE_LABELS[i].pct
FASE_LABELS == <<0, 25, 50, 75, 100>>

(***************************************************************************)
(* LandingEbanisteria: the handlers that drive progreso.                   *)
(***************************************************************************)
\* the state updates of handleSelectModelo
SetModelo(m) ==
  /\ canvasKey < MaxCanvasKey
  /\ animando' = FALSE
  /\ modelo' = m
  /\ progreso' = 0
  /\ modoCotas' = FALSE
  /\ canvasKey' = canvasKey + 1

\* handleSelectModelo as the progress-driven viewers see it: they are pure
\* functions of modelo and progreso, the loads are followed in SpecCarga
handleSelectModelo(m) ==
  /\ SetModelo(m)
  /\ UNCHANGED solverVars
  /\ UNCHANGED manualVars
  /\ UNCHANGED cargaVars
  /\ UNCHANGED corteVars
  /\ UNCHANGED animVars
  /\ UNCHANGED memoVars
  /\ UNCHANGED diagVars

\* the slider: min 0, max 100, step 1
handleProgreso(v) ==
  /\ animando' = FALSE
  /\ progreso' = 10 * v
  /\ UNCHANGED <<modelo, modoCotas, canvasKey>>
  /\ UNCHANGED solverVars
  /\ UNCHANGED manualVars
  /\ UNCHANGED cargaVars
  /\ UNCHANGED corteVars
  /\ UNCHANGED animVars
  /\ UNCHANGED memoVars
  /\ UNCHANGED diagVars

\* onClick of a phase tick
PhaseTick(i) ==
  /\ animando' = FALSE
  /\ progreso' = 10 * FASE_LABELS[i]
  /\ UNCHANGED <<modelo, modoCotas, canvasKey>>
  /\ UNCHANGED solverVars
  /\ UNCHANGED manualVars
  /\ UNCHANGED cargaVars
  /\ UNCHANGED corteVars
  /\ UNCHANGED animVars
  /\ UNCHANGED memoVars
  /\ UNCHANGED diagVars

handleCotas ==
  /\ modoCotas' = ~modoCotas
  /\ progreso' = IF ~modoCotas /\ progreso < 500 THEN 500 ELSE progreso
  /\ UNCHANGED <<modelo, animando, canvasKey>>
  /\ UNCHANGED solverVars
  /\ UNCHANGED manualVars
  /\ UNCHANGED cargaVars
  /\ UNCHANGED corteVars
  /\ UNCHANGED animVars
  /\ UNCHANGED memoVars
  /\ UNCHANGED diagVars

\* the button is rendered only when progreso >= 50
handleEnsamblar ==
  /\ progreso >= 500
  /\ IF progreso >= 1000
       THEN /\ progreso' = 500
            /\ animando' = FALSE
       ELSE /\ progreso' = progreso
            /\ animando' = TRUE
  /\ UNCHANGED <<modelo, modoCotas, canvasKey>>
  /\ UNCHANGED solverVars
  /\ UNCHANGED manualVars
  /\ UNCHANGED cargaVars
  /\ UNCHANGED corteVars
  /\ UNCHANGED animVars
  /\ UNCHANGED memoVars
  /\ UNCHANGED diagVars

\* the requested frame runs: step and its setProgreso updater
AnimStep ==
  /\ animando
  /\ progreso' = Min({1000, progreso + 12})
  /\ animando' = (Min({1000, progreso + 12}) < 1000)
  /\ UNCHANGED <<modelo, modoCotas, canvasKey>>
  /\ UNCHANGED solverVars
  /\ UNCHANGED manualVars
  /\ UNCHANGED cargaVars
  /\ UNCHANGED corteVars
  /\ UNCHANGED animVars
  /\ UNCHANGED memoVars
  /\ UNCHANGED diagVars

NextVisor ==
  \/ \E m \in Modelos : handleSelectModelo(m)
  \/ \E v \in 0..100 : handleProgreso(v)
  \/ \E i \in 1..Len(FASE_LABELS) : PhaseTick(i)
  \/ handleCotas
  \/ handleEnsamblar
  \/ AnimStep

SpecVisor == Init /\ [][NextVisor]_vars

(***************************************************************************)
(* Model selection and STL loads.  A geometry is identified by the model   *)
(* whose file it was parsed from.                                          *)
(***************************************************************************)
\* a completion that hands its geometry to whatever PiezasManual is waiting
LoadResolves_AppliesStale(u) ==
  /\ cache[u] = "pending"
  /\ cache' = [cache EXCEPT ![u] = "loaded"]
  /\ visor' = IF visor.mostrado = "fallback"
                THEN [visor EXCEPT !.mostrado = u]
                ELSE visor
  /\ UNCHANGED solverVars
  /\ UNCHANGED visorVars
  /\ UNCHANGED manualVars
  /\ UNCHANGED corteVars
  /\ UNCHANGED animVars
  /\ UNCHANGED memoVars
  /\ UNCHANGED diagVars

\* the load of model u completes: the geometry enters the cache under its
\* url, and a PiezasManual suspended on that url renders with it
LoadResolves(u) ==
  /\ cache[u] = "pending"
  /\ cache' = [cache EXCEPT ![u] = "loaded"]
  /\ visor' = IF visor.url = u /\ visor.mostrado = "fallback"
                THEN [visor EXCEPT !.mostrado = u]
                ELSE visor
  /\ UNCHANGED solverVars
  /\ UNCHANGED visorVars
  /\ UNCHANGED manualVars
  /\ UNCHANGED corteVars
  /\ UNCHANGED animVars
  /\ UNCHANGED memoVars
  /\ UNCHANGED diagVars

\* handleSelectModelo and the render that follows: the key of <VisorCanvas>
\* changed, so the mounted one is dropped with its PiezasManual and a new one
\* mounts, whose PiezasManual calls useLoader with the url of m: it renders
\* at once with a cached geometry and suspends otherwise, starting the load
\* unless one is in flight for that url
SelectModelo(m) ==
  /\ SetModelo(m)
  /\ cache' = [cache EXCEPT ![m] = IF @ = "none" THEN "pending" ELSE @]
  /\ visor' = [key      |-> canvasKey + 1,
               url      |-> m,
               mostrado |-> IF cache[m] = "loaded" THEN m ELSE "fallback"]
  /\ UNCHANGED solverVars
  /\ UNCHANGED manualVars
  /\ UNCHANGED corteVars
  /\ UNCHANGED animVars
  /\ UNCHANGED memoVars
  /\ UNCHANGED diagVars

NextCarga ==
  \/ \E m \in Modelos : SelectModelo(m)
  \/ \E u \in Modelos : LoadResolves(u)

SpecCarga == Init /\ [][NextCarga]_vars

\* C14: whatever the interleaving of selections and load completions, the
\* mounted viewer is the one of the selected model, and it shows either the
\* fallback or the geometry of the selected model, never that of another.
C14_DisplayedBelongsToSelected ==
  /\ visor.key = canvasKey
  /\ visor.url = modelo
  /\ visor.mostrado \in {"fallback", modelo}

\* a load that was in flight when another model was selected has completed
\* while the viewer of the newer model was still waiting for its own
C14_Witness ==
  /\ visor.mostrado = "fallback"
  /\ cache[modelo] = "pending"
  /\ \E u \in Modelos \ {modelo} : cache[u] = "loaded"

(***************************************************************************)
(* Properties of the assembly transform.                                   *)
(***************************************************************************)
\* what the viewers compute from the current state
familia == CATEGORIAS(modelo).familia
bloques == BloquesAnimados(familia, progreso)
piezas  == STLPiezas(progreso)

\* C8: at progreso 100 the Moving block B stands translated from its pose
\* at progreso 0 by -(gap + penetration), gap being the distance between
\* B's lower face and A's upper face at progreso 0 and penetration =
\* min(heightA, heightB) * ensamble.penetration, and the two blocks overlap
\* along Y by exactly that penetration.  Lengths in 1/4000 of a scene unit.
C8_MatedOffsetClosesGapAndPenetrates ==
  progreso >= 1000 =>
    LET cfg       == getFamiliaConfig(familia)
        hA        == 20 * cfg.bloqueA[2]
        hB        == 20 * cfg.bloqueB[2]
        separated == BloquesAnimados(familia, 0)
        gap       == 10 * ((separated.yB - hB) - (separated.yA + hA))
        penetration ==
          4 * Min({cfg.bloqueA[2], cfg.bloqueB[2]}) * CATEGORIAS(modelo).penetration
        overlap   == 10 * ((bloques.yA + hA) - (bloques.yB - hB))
    IN  /\ 10 * (bloques.yB - separated.yB) = -(gap + penetration)
        /\ overlap = penetration

C10_BasePoseNeverChanges ==
  [][ modelo' = modelo =>
        /\ (VisorCanvas5(progreso) = "BloquesAnimados"
              /\ VisorCanvas5(progreso') = "BloquesAnimados")
             => bloques'.yA = bloques.yA
        /\ (VisorCanvas4(progreso) = "STLPiezas"
              /\ VisorCanvas4(progreso') = "STLPiezas")
             => piezas'.yInferior = piezas.yInferior ]_vars

(***************************************************************************)
(* The cut pieces of the block viewer.  A geometry built from boxes is     *)
(* the block, the boxes subtracted from it in order, and whether the       *)
(* evaluator left it without triangles.  What CSG.evaluate does at a cut   *)
(* is the library's: it returns the difference, returns a brush whose      *)
(* geometry is empty, or throws.                                           *)
(***************************************************************************)
Resultados == {"ok", "vacio", "throw"}

\* new THREE.BoxGeometry(...dims)
BoxGeometry(dims) == [dims |-> dims, cortes |-> <<>>, vacio |-> FALSE]

\* CSG.evaluate(brush, cut, SUBTRACTION) when it returns
Evaluate(brush, zona, resultado) ==
  [dims   |-> brush.dims,
   cortes |-> Append(brush.cortes, zona),
   vacio  |-> brush.vacio \/ resultado = "vacio"]

\* the for loop of buildCortadaGeo from cut i on; Thrown when an evaluation
\* throws
Thrown == [thrown |-> TRUE]
RECURSIVE CutLoop(_, _, _, _)
CutLoop(brush, eliminar, resultados, i) ==
  IF i > Len(eliminar) THEN brush
  ELSE IF resultados[i] = "throw" THEN Thrown
  ELSE CutLoop(Evaluate(brush, eliminar[i], resultados[i]), eliminar, resultados, i + 1)

\* buildCortadaGeo: the try block, and the catch with the whole block
buildCortadaGeo(dims, eliminar, resultados) ==
  LET brush == CutLoop(BoxGeometry(dims), eliminar, resultados, 1)
  IN  IF brush = Thrown THEN BoxGeometry(dims) ELSE brush

\* the useMemo of PiezaCortada
PiezaCortada(fam, pieza, resultados) ==
  LET cfg      == getFamiliaConfig(fam)
      dims     == IF pieza = "A" THEN cfg.bloqueA ELSE cfg.bloqueB
      eliminar == IF pieza = "A" THEN cfg.eliminarA ELSE cfg.eliminarB
  IN  [dims       |-> dims,
       eliminar   |-> eliminar,
       resultados |-> resultados,
       geo        |-> buildCortadaGeo(dims, eliminar, resultados)]

\* the familia props the viewer is given: the six families and a name
\* without a case
FamiliaProps == Familias \cup {"ingletada"}

\* BloquesAnimados renders with mostrarCortado: both <PiezaCortada> mount and
\* their useMemo run, A first
MostrarCortado(fam) ==
  /\ LET cfg == getFamiliaConfig(fam)
     IN  \E ra \in [1..Len(cfg.eliminarA) -> Resultados],
            rb \in [1..Len(cfg.eliminarB) -> Resultados] :
           cortadas' = [familia |-> fam,
                        cfg     |-> cfg,
                        A       |-> PiezaCortada(fam, "A", ra),
                        B       |-> PiezaCortada(fam, "B", rb)]
  /\ UNCHANGED solverVars
  /\ UNCHANGED visorVars
  /\ UNCHANGED manualVars
  /\ UNCHANGED cargaVars
  /\ UNCHANGED animVars
  /\ UNCHANGED memoVars
  /\ UNCHANGED diagVars

NextCorte == \E fam \in FamiliaProps : MostrarCortado(fam)

SpecCorte == Init /\ [][NextCorte]_vars

Montadas == cortadas # SinCortadas

C18_UncutBlockOnFailure ==
  LET Esperada(pieza) ==
        IF \E i \in DOMAIN pieza.resultados : pieza.resultados[i] \in {"throw", "vacio"}
          THEN BoxGeometry(pieza.dims)
          ELSE [dims |-> pieza.dims, cortes |-> pieza.eliminar, vacio |-> FALSE]
  IN  Montadas =>
        /\ cortadas.A.geo = Esperada(cortadas.A)
        /\ cortadas.B.geo = Esperada(cortadas.B)

\* the extent of a cut along Y in the frame of the scene, in 1/400: its
\* lower and upper face, for a piece whose group sits at y
CutLo(zona, y) == y + 4 * zona.pos[2] - 2 * zona.args[2]
CutHi(zona, y) == y + 4 * zona.pos[2] + 2 * zona.args[2]

\* C19: in the family shown, every cut of A reaches the face of A turned to
\* B (its top), every cut of B reaches the face of B turned to A (its
\* bottom), and with the pieces mated the cuts of A end where those of B
\* begin along the assembly axis.
C19_CutsFaceTheOtherPiece ==
  LET cfg     == getFamiliaConfig(familia)
      mated   == BloquesAnimados(familia, 1000)
      topA    == mated.yA + 20 * cfg.bloqueA[2]
      bottomB == mated.yB - 20 * cfg.bloqueB[2]
  IN  /\ \A i \in DOMAIN cfg.eliminarA : CutHi(cfg.eliminarA[i], mated.yA) >= topA
      /\ \A j \in DOMAIN cfg.eliminarB : CutLo(cfg.eliminarB[j], mated.yB) <= bottomB
      /\ \A i \in DOMAIN cfg.eliminarA : \A j \in DOMAIN cfg.eliminarB :
           CutHi(cfg.eliminarA[i], mated.yA) = CutLo(cfg.eliminarB[j], mated.yB)

(***************************************************************************)
(* The active phase of the landing page.                                   *)
(***************************************************************************)
\* a loop without the break: the last index it visits that passes the test
\* wins
getFaseInfo_NoBreak(p) ==
  LET idx == Min({i \in 0..(Len(FASE_LABELS) - 1) : p >= 10 * FASE_LABELS[i + 1]} \cup {Len(FASE_LABELS)})
                 % Len(FASE_LABELS)
  IN  [idx |-> idx, pct |-> FASE_LABELS[idx + 1]]

\* getFaseInfo: idx starts at 0, the loop goes down from the last phase and
\* stops at the first whose pct progreso has reached (p in tenths, idx as
\* in the source, from 0)
getFaseInfo(p) ==
  LET RECURSIVE Loop(_)
      Loop(i) == IF i < 0 THEN 0
                 ELSE IF p >= 10 * FASE_LABELS[i + 1] THEN i
                 ELSE Loop(i - 1)
      idx == Loop(Len(FASE_LABELS) - 1)
  IN  [idx |-> idx, pct |-> FASE_LABELS[idx + 1]]

\* the phases whose range holds p: from its pct up to the pct of the next
\* phase, the last one up to 100
FasesCon(p) ==
  {i \in 1..Len(FASE_LABELS) :
     /\ 10 * FASE_LABELS[i] <= p
     /\ IF i < Len(FASE_LABELS) THEN p < 10 * FASE_LABELS[i + 1] ELSE p <= 1000}

\* C20: the phases partition [0, 100]: every progreso the page reaches lies
\* in the range of exactly one phase, getFaseInfo returns that phase, which
\* is the one with the largest pct <= progreso, and when progreso does not
\* decrease the returned index does not decrease.
C20_PhasesPartitionProgress ==
  [][ /\ \A p \in {progreso, progreso'} :
           /\ p \in 0..1000
           /\ FasesCon(p) = {getFaseInfo(p).idx + 1}
           /\ 10 * getFaseInfo(p).pct <= p
           /\ \A i \in 1..Len(FASE_LABELS) :
                10 * FASE_LABELS[i] <= p => FASE_LABELS[i] <= getFaseInfo(p).pct
      /\ progreso' >= progreso => getFaseInfo(progreso').idx >= getFaseInfo(progreso).idx
    ]_vars

\* the animation has carried progreso into the inside of the fourth phase
C20_Witness ==
  /\ animando
  /\ progreso > 10 * FASE_LABELS[4]
  /\ progreso < 10 * FASE_LABELS[5]
  /\ progreso % 10 # 0
  /\ getFaseInfo(progreso).idx = 3

(***************************************************************************)
(* The auto-assemble animation, step by step.  requestAnimationFrame       *)
(* calls step, step hands React the updater of progreso, and React runs    *)
(* the updater when it processes its queue: at once when nothing is        *)
(* pending (StepFrame directly followed by ProcesarCola), in a later       *)
(* render otherwise.  An update made by a user event is rendered at the    *)
(* end of the event; the queued updaters before it run afterwards, from    *)
(* the state they were queued on, and the update is replayed after them.   *)
(***************************************************************************)
\* the updater of step: prev => Math.min(100, prev + 1.2)
StepUpdater_NoCap(prev) == prev + 12

StepUpdater(prev) == Min({1000, prev + 12})

\* queued updates: the updater of step, or a value
Step == [op |-> "step", v |-> 0]
SetTo(v) == [op |-> "set", v |-> v]

\* React processes the updates from i on: the state they leave and how
\* many times an updater requested the next frame
RECURSIVE Procesar(_, _, _, _)
Procesar(updates, i, state, frames) ==
  IF i > Len(updates) THEN [state |-> state, frames |-> frames]
  ELSE IF updates[i].op = "set"
         THEN Procesar(updates, i + 1, updates[i].v, frames)
         ELSE LET next == StepUpdater(state)
              IN  Procesar(updates, i + 1, next,
                           IF next < 1000 THEN frames + 1 ELSE frames)

CabeEnCola == Len(cola.updates) < MaxCola

\* step, called by requestAnimationFrame: setProgreso(updater)
EncolarStep ==
  /\ CabeEnCola
  /\ cola' = IF cola.updates = <<>>
               THEN [base |-> progreso, updates |-> <<Step>>]
               ELSE [cola EXCEPT !.updates = Append(@, Step)]

\* setProgreso(v) in an event handler: rendered with the event, and replayed
\* after the updaters queued before it
setProgreso(v) ==
  /\ cola.updates # <<>> => CabeEnCola
  /\ progreso' = v
  /\ cola' = IF cola.updates = <<>>
               THEN cola
               ELSE [cola EXCEPT !.updates = Append(@, SetTo(v))]

\* the models and slider positions followed here
AnimModelos == {MODELO_DEFAULT}
AnimSlider == {40, 99}

\* handleSelectModelo
SelectModeloAnim(m) ==
  /\ canvasKey < MaxCanvasKey
  /\ animando' = FALSE
  /\ modelo' = m
  /\ setProgreso(0)
  /\ modoCotas' = FALSE
  /\ canvasKey' = canvasKey + 1
  /\ fijado' = 0
  /\ UNCHANGED huerfanos
  /\ UNCHANGED solverVars
  /\ UNCHANGED manualVars
  /\ UNCHANGED cargaVars
  /\ UNCHANGED corteVars
  /\ UNCHANGED memoVars
  /\ UNCHANGED diagVars

\* handleProgreso
ProgresoAnim(v) ==
  /\ animando' = FALSE
  /\ setProgreso(10 * v)
  /\ fijado' = 10 * v
  /\ UNCHANGED <<modelo, modoCotas, canvasKey, huerfanos>>
  /\ UNCHANGED solverVars
  /\ UNCHANGED manualVars
  /\ UNCHANGED cargaVars
  /\ UNCHANGED corteVars
  /\ UNCHANGED memoVars
  /\ UNCHANGED diagVars

\* onClick of a phase tick
PhaseTickAnim(i) ==
  /\ animando' = FALSE
  /\ setProgreso(10 * FASE_LABELS[i])
  /\ fijado' = 10 * FASE_LABELS[i]
  /\ UNCHANGED <<modelo, modoCotas, canvasKey, huerfanos>>
  /\ UNCHANGED solverVars
  /\ UNCHANGED manualVars
  /\ UNCHANGED cargaVars
  /\ UNCHANGED corteVars
  /\ UNCHANGED memoVars
  /\ UNCHANGED diagVars

\* handleCotas: it cancels nothing
CotasAnim ==
  /\ modoCotas' = ~modoCotas
  /\ IF ~modoCotas /\ progreso < 500
       THEN setProgreso(500)
       ELSE UNCHANGED <<progreso, cola>>
  /\ fijado' = -1
  /\ UNCHANGED <<modelo, animando, canvasKey, huerfanos>>
  /\ UNCHANGED solverVars
  /\ UNCHANGED manualVars
  /\ UNCHANGED cargaVars
  /\ UNCHANGED corteVars
  /\ UNCHANGED memoVars
  /\ UNCHANGED diagVars

\* handleEnsamblar
EnsamblarAnim ==
  /\ progreso >= 500
  /\ IF progreso >= 1000
       THEN /\ setProgreso(500)
            /\ animando' = FALSE
       ELSE /\ animando' = TRUE
            /\ UNCHANGED <<progreso, cola>>
  /\ fijado' = -1
  /\ UNCHANGED <<modelo, modoCotas, canvasKey, huerfanos>>
  /\ UNCHANGED solverVars
  /\ UNCHANGED manualVars
  /\ UNCHANGED cargaVars
  /\ UNCHANGED corteVars
  /\ UNCHANGED memoVars
  /\ UNCHANGED diagVars

\* the frame animRef.current names runs: step
StepFrame ==
  /\ animando
  /\ animando' = FALSE
  /\ EncolarStep
  /\ UNCHANGED <<progreso, modelo, modoCotas, canvasKey, huerfanos, fijado>>
  /\ UNCHANGED solverVars
  /\ UNCHANGED manualVars
  /\ UNCHANGED cargaVars
  /\ UNCHANGED corteVars
  /\ UNCHANGED memoVars
  /\ UNCHANGED diagVars

\* a requested frame that animRef.current no longer names runs: step
StepHuerfano ==
  /\ huerfanos > 0
  /\ huerfanos' = huerfanos - 1
  /\ EncolarStep
  /\ UNCHANGED <<progreso, modelo, modoCotas, canvasKey, animando, fijado>>
  /\ UNCHANGED solverVars
  /\ UNCHANGED manualVars
  /\ UNCHANGED cargaVars
  /\ UNCHANGED corteVars
  /\ UNCHANGED memoVars
  /\ UNCHANGED diagVars

\* React processes the queue: every updater that stays under 100 does
\* animRef.current = requestAnimationFrame(step), which leaves the frame
\* animRef named before without a name
ProcesarCola ==
  /\ cola.updates # <<>>
  /\ LET r == Procesar(cola.updates, 1, cola.base, 0)
         h == IF r.frames = 0 THEN huerfanos
              ELSE huerfanos + (IF animando THEN 1 ELSE 0) + (r.frames - 1)
     IN  /\ h <= MaxHuerfanos
         /\ progreso' = r.state
         /\ animando' = (animando \/ r.frames > 0)
         /\ huerfanos' = h
  /\ cola' = ColaVacia
  /\ UNCHANGED <<modelo, modoCotas, canvasKey, fijado>>
  /\ UNCHANGED solverVars
  /\ UNCHANGED manualVars
  /\ UNCHANGED cargaVars
  /\ UNCHANGED corteVars
  /\ UNCHANGED memoVars
  /\ UNCHANGED diagVars

NextAnim ==
  \/ \E m \in AnimModelos : SelectModeloAnim(m)
  \/ \E v \in AnimSlider : ProgresoAnim(v)
  \/ \E i \in 1..Len(FASE_LABELS) : PhaseTickAnim(i)
  \/ CotasAnim
  \/ EnsamblarAnim
  \/ StepFrame
  \/ StepHuerfano
  \/ ProcesarCola

SpecAnim == Init /\ [][NextAnim]_vars

\* C21: after any sequence of model selections, slider changes, phase-tick
\* clicks, cotas toggles, Ensamblar clicks and animation steps, progreso is
\* within [0, 100].
C21_ProgresoInRange ==
  /\ progreso >= 0
  /\ progreso <= 1000

\* the animation has carried progreso up to 100 and stopped there
C21_Witness ==
  /\ progreso = 1000
  /\ fijado = -1
  /\ ~animando
  /\ huerfanos = 0
  /\ cola = ColaVacia

\* C27: after the user selects a model, moves the slider or clicks a phase
\* tick, progreso keeps the value the user gave it until the next user
\* action: no animation frame changes it, however the frame callback, its
\* queued update and the handler interleave.
C27_UserValueStays ==
  fijado # -1 => progreso = fijado

\* C26: a click on the Ensamblar button below 100 starts the animation,
\* every animation frame adds 1.2 to progreso up to the cap of 100, at 100
\* no further frame is requested, and a click at 100 or above puts progreso
\* back at 66 and starts no animation.
C26_EnsamblarAnimatesOrGoesBack ==
  [][ /\ AnimStep =>
           /\ progreso' = Min({1000, progreso + 12})
           /\ progreso' = 1000 => ~animando'
      /\ (handleEnsamblar /\ progreso < 1000) =>
           /\ animando'
           /\ progreso' = progreso
      /\ (handleEnsamblar /\ progreso >= 1000) =>
           /\ progreso' = 660
           /\ ~animando'
    ]_vars

(***************************************************************************)
(* Annotation placement.  A bounding box is in W units, u of them to the   *)
(* scene unit; an angle is kept as the fraction num/den of pi, r and y in  *)
(* tenths of a W unit.  The position of the card is                        *)
(* (cos(angle) * r, y, sin(angle) * r).                                    *)
(***************************************************************************)
\* the numbers of the two viewers, in tenths: r = dx * 0.7 + margin,
\* y = max.y * yFactor - i * yStep
CotasManual == [margin |-> 18, yFactor |-> 3, yStep |-> 15]
CotasEnsamblado == [margin |-> 15, yFactor |-> 4, yStep |-> 14]

\* a placement that puts every card at the height of the first
CotaAnchor_SameHeight(bbox, u, i, n, c) ==
  [angle |-> [num |-> 4 * i - n, den |-> 4 * n],
   r     |-> 7 * (bbox.max[1] - bbox.min[1]) + c.margin * u,
   y     |-> c.yFactor * bbox.max[2]]

\* the callback of tolerancias.map for index i of n
CotaAnchor(bbox, u, i, n, c) ==
  [angle |-> [num |-> 4 * i - n, den |-> 4 * n],
   r     |-> 7 * (bbox.max[1] - bbox.min[1]) + c.margin * u,
   y     |-> c.yFactor * bbox.max[2] - i * c.yStep * u]

\* tolerancias.map(...): the anchors of a list of n tolerances
Cotas(bbox, u, n, c) == [k \in 1..n |-> CotaAnchor(bbox, u, k - 1, n, c)]

\* bboxA of the rendered PiezasManual has vertices in it
CotasVisibles ==
  /\ pc = "mounted"
  /\ ~IsUndefined(memo.geoA)
  /\ ~memo.geoA.boundingBox.empty

PiezaCortadaMontada(m, p) ==
  /\ VisorCanvas5(p) = "BloquesAnimados"
  /\ BloquesAnimados(CATEGORIAS(m).familia, p).mostrarCortado

\* the render after progreso changed under the same key: the pieces that
\* mount build their geometry
RenderProgreso(p) ==
  LET monta == PiezaCortadaMontada(modelo, p) /\ ~montajes.cortada
  IN  /\ monta => montajes.builds < MaxBuilds
      /\ montajes' = [cortada |-> PiezaCortadaMontada(modelo, p),
                      builds  |-> IF monta THEN montajes.builds + 1
                                           ELSE montajes.builds]

\* handleProgreso and the render that follows
ProgresoRender(v) ==
  /\ animando' = FALSE
  /\ progreso' = 10 * v
  /\ RenderProgreso(10 * v)
  /\ UNCHANGED <<modelo, modoCotas, canvasKey>>
  /\ UNCHANGED solverVars
  /\ UNCHANGED manualVars
  /\ UNCHANGED cargaVars
  /\ UNCHANGED corteVars
  /\ UNCHANGED animVars
  /\ UNCHANGED diagVars

\* handleSelectModelo and the render that follows: a new <VisorCanvas>
\* mounts at progreso 0
SelectModeloRender(m) ==
  /\ SetModelo(m)
  /\ montajes' = [cortada |-> PiezaCortadaMontada(m, 0), builds |-> 0]
  /\ UNCHANGED solverVars
  /\ UNCHANGED manualVars
  /\ UNCHANGED cargaVars
  /\ UNCHANGED corteVars
  /\ UNCHANGED animVars
  /\ UNCHANGED diagVars

NextMemo ==
  \/ \E v \in 0..100 : ProgresoRender(v)
  \/ \E m \in Modelos : SelectModeloRender(m)

SpecMemo == Init /\ [][NextMemo]_vars

\* C23: the cut pieces are synthesised once per loaded model: while the
\* model stays the same no change of progreso runs buildCortadaGeo again.
C23_CutPiecesBuiltOnce ==
  montajes.builds <= 1

(***************************************************************************)
(* Blend factors and overlays of the progress-driven viewers.              *)
(***************************************************************************)
\* BloquesEnBruto: highlightOpacity over 150 (p in tenths)
BloquesEnBruto(p) ==
  [highlightOpacity |-> IF p < 200 THEN 0
                        ELSE IF p < 350 THEN p - 200
                        ELSE IF p < 450 THEN 150
                        ELSE 150 - 3 * (p - 450),
   mostrarZonas     |-> p >= 200]

\* C24: at every integer progreso below 100 the blend factors tTrazado,
\* tCortado and tUnion and the opacities derived from them (the marking
\* overlay, the solid block, the highlight of the raw blocks) are within
\* [0, 1], and one more point of progreso changes none of them by more than
\* the step of its ramp: 1/8 for the marking ramp and its overlay, 1/6 for
\* the cutting ramp and the solid block, 1/20 for the union, 1/5 for the
\* highlight of the raw blocks.
C24_BlendsAreClampedRamps ==
  (progreso % 10 = 0 /\ progreso < 1000) =>
    LET a  == BloquesAnimados(familia, progreso)
        b  == BloquesAnimados(familia, progreso + 10)
        ha == BloquesEnBruto(progreso)
        hb == BloquesEnBruto(progreso + 10)
    IN  /\ a.tTrazado \in 0..80 /\ a.tCortado \in 0..60 /\ a.tUnion \in 0..200
        /\ a.opTrazado \in 0..800
        /\ Dist(b.tTrazado, a.tTrazado) <= 10
        /\ Dist(b.tCortado, a.tCortado) <= 10
        /\ Dist(b.tUnion, a.tUnion) <= 10
        /\ Dist(b.opTrazado, a.opTrazado) <= 100
        /\ progreso + 10 < 10 * FASE_CORTADO =>
             /\ ha.highlightOpacity \in 0..150
             /\ Dist(hb.highlightOpacity, ha.highlightOpacity) <= 30

\* the geometries that draw one piece at progreso p
GeometriasDePieza(p) ==
  IF VisorCanvas5(p) = "STLEnsamblado"
    THEN {"STL"}
    ELSE (IF BloquesAnimados(familia, p).mostrarSolido THEN {"solido"} ELSE {})
         \cup (IF BloquesAnimados(familia, p).mostrarCortado THEN {"cortada"} ELSE {})

\* C25: at every progreso each piece is drawn by exactly one geometry: its
\* solid block, its cut piece, or the assembled STL.
C25_OneGeometryPerPiece ==
  Cardinality(GeometriasDePieza(progreso)) = 1

(***************************************************************************)
(* The diagnostic flow of SimuladorDiagnostico3D.  A handler runs when the *)
(* control it is wired to is rendered and enabled; its state updates are   *)
(* rendered before the next event.                                         *)
(***************************************************************************)
\* DEFAULT_ERROR_OPTIONS: the ids
ErrorIds == {"ajuste_suelto", "caja_mal_centrada", "espiga_muy_larga", "ajuste_forzado"}

\* the slider positions followed, in hundredths (min 0, max 1, step 0.01)
Separaciones == {0, 15, 16, 100}

Otros == UNCHANGED <<solverVars, visorVars, manualVars, cargaVars, corteVars, animVars, memoVars>>

\* handleSeparationChange
handleSeparationChange(value) ==
  /\ diag' = [diag EXCEPT
                !.separationOffset = value,
                !.hasUsedDisassembly = IF value > 15 /\ ~diag.hasUsedDisassembly
                                         THEN TRUE ELSE @]
  /\ Otros

\* handleProceedToDiagnosis, the button of the inspection phase
handleProceedToDiagnosis ==
  /\ diag.phase = "inspection"
  /\ diag' = [diag EXCEPT !.phase = "diagnosis"]
  /\ Otros

\* onSelectError = setSelectedErrorId, the option buttons of the diagnosis
\* phase
onSelectError(id) ==
  /\ diag.phase = "diagnosis"
  /\ diag' = [diag EXCEPT !.selectedErrorId = id]
  /\ Otros

\* handleSubmit, the button of the diagnosis phase (disabled while nothing
\* is selected)
handleSubmit ==
  /\ diag.phase = "diagnosis"
  /\ diag.selectedErrorId # "null"
  /\ IF diag.selectedErrorId = "null" \/ diag.submitted
       THEN diag' = diag
       ELSE diag' = [diag EXCEPT
                       !.submitted = TRUE,
                       !.phase = "complete",
                       !.llamadas = IF diag.onComplete THEN @ + 1 ELSE @,
                       !.enviado = IF diag.onComplete THEN diag.selectedErrorId ELSE @]
  /\ Otros

\* a retry that keeps the selection
handleRetry_KeepsSelection ==
  /\ diag.phase = "complete"
  /\ diag' = [DiagInicial(diag.onComplete) EXCEPT !.selectedErrorId = diag.selectedErrorId]
  /\ Otros

\* handleRetry, the button of the result phase
handleRetry ==
  /\ diag.phase = "complete"
  /\ diag' = DiagInicial(diag.onComplete)
  /\ Otros

\* the panel as mounted, with or without an onComplete prop
InitDiag ==
  /\ rawGeo = <<>>
  /\ pc = "loading"
  /\ ensamble = EnsambleDefault
  /\ geo = Normalise(<<>>)
  /\ memo = NoMemo
  /\ progreso = 0
  /\ modelo = MODELO_DEFAULT
  /\ modoCotas = FALSE
  /\ animando = FALSE
  /\ canvasKey = 0
  /\ version = 2
  /\ keys = {}
  /\ posB = Zero3
  /\ rotB = ZeroEuler
  /\ groupB = [position |-> Zero3, rotation |-> ZeroEuler]
  /\ triggerReset = 0
  /\ frame = [delta |-> 0, moved |-> FALSE]
  /\ cache = PrimeraCarga.cache
  /\ visor = PrimeraCarga.visor
  /\ cortadas = SinCortadas
  /\ huerfanos = 0
  /\ cola = ColaVacia
  /\ fijado = -1
  /\ montajes = SinMontajes
  /\ diag \in {DiagInicial(c) : c \in BOOLEAN}

NextDiag ==
  \/ \E value \in Separaciones : handleSeparationChange(value)
  \/ handleProceedToDiagnosis
  \/ \E id \in ErrorIds : onSelectError(id)
  \/ handleSubmit
  \/ handleRetry

SpecDiag == InitDiag /\ [][NextDiag]_vars

\* C28: between mount (or a retry) and the next retry onComplete is called at
\* most once, only with a selected error option and only together with the
\* transition to phase 'complete'; phase 'complete' implies submitted and a
\* selected option; a retry restores phase 'inspection', no selection, not
\* submitted, slider at 0 and the disassembly flag false.
C28_SubmitsOncePerAttempt ==
  [][ /\ diag'.llamadas <= 1
      /\ diag'.llamadas # diag.llamadas /\ ~handleRetry =>
           /\ diag'.llamadas = diag.llamadas + 1
           /\ diag.selectedErrorId \in ErrorIds
           /\ diag'.enviado = diag.selectedErrorId
           /\ diag.phase # "complete" /\ diag'.phase = "complete"
      /\ diag'.phase = "complete" =>
           diag'.submitted /\ diag'.selectedErrorId \in ErrorIds
      /\ handleRetry =>
           /\ diag'.phase = "inspection"
           /\ diag'.selectedErrorId = "null"
           /\ ~diag'.submitted
           /\ diag'.separationOffset = 0
           /\ ~diag'.hasUsedDisassembly
           /\ diag'.llamadas = 0 ]_vars

\* an attempt that used the disassembly slider has been submitted, and its
\* selected option sent to onComplete
C28_Witness ==
  /\ diag.phase = "complete"
  /\ diag.llamadas = 1
  /\ diag.enviado = diag.selectedErrorId
  /\ diag.hasUsedDisassembly

(***************************************************************************)
(* The union pass of splitMeshByComponents, triangle by triangle.          *)
(***************************************************************************)
\* the parent array after the first t triangles of the union loop
ParentAfter(g, t) ==
  UnionLoop(Canon(g), [i \in 0..(g.count - 1) |-> i], 0, t)

\* for each vertex, the vertices the parent links connect it to, in either
\* direction: the set it is in
SetsOf(parent) ==
  CHOOSE c \in {[a \in DOMAIN parent |-> Reach(nb, {a})] :
                  nb \in {[a \in DOMAIN parent |->
                             {parent[a]} \cup {b \in DOMAIN parent : parent[b] = a}]}} : TRUE

\* C29: in the union pass every call to find terminates, the parent array is
\* a forest (the only cycles are roots pointing to themselves) after each
\* triangle, also after a triangle whose third vertex is in the set of its
\* first, and the sets merged by an earlier triangle are not separated by a
\* later one.
C29_ParentStaysForest ==
  Mounted =>
    \A canon \in {Canon(geo)} :
      \A t \in 0..NumTris(geo) :
        \A parent \in {ParentAfter(geo, t)} :
          LET RECURSIVE Walk(_, _)
              Walk(a, n) == IF n = 0 \/ parent[a] = a THEN a ELSE Walk(parent[a], n - 1)
          IN  /\ \A a \in DOMAIN parent : parent[Walk(a, geo.count)] = Walk(a, geo.count)
              /\ t < NumTris(geo) =>
                   LET fa  == find(parent, canon[3 * t])
                       fb  == find(fa.parent, canon[3 * t + 1])
                       fc  == find(fb.parent, canon[3 * t + 2])
                       p1  == IF fa.root # fb.root
                                THEN SetParent(fc.parent, fa.root, fb.root)
                                ELSE fc.parent
                       fbc == find(p1, canon[3 * t + 1])
                   IN  /\ fa.root # -1 /\ fb.root # -1 /\ fc.root # -1 /\ fbc.root # -1
                       /\ \A before \in {SetsOf(parent)}, after \in {SetsOf(ParentAfter(geo, t + 1))} :
                            \A a \in DOMAIN parent : before[a] \subseteq after[a]

\* C30: when the union-find yields a single component and geoSplit is set,
\* splitMeshGeometrically puts every triangle in exactly one of two halves,
\* in the first one exactly when its centroid along the assembly axis is <=
\* the midpoint of the extent of the mesh, and both halves are non-empty,
\* with a bounding box each.
C30_GeometricSplitGivesTwoPieces ==
  Mounted /\ version = 2 /\ ensamble.geoSplit /\ Len(memo.componentes) = 1 =>
    /\ Len(memo.partes) = 2
    /\ \A t \in Tris(geo) :
         /\ (t \in Range(memo.partes[1].tris)) # (t \in Range(memo.partes[2].tris))
         /\ t \in Range(memo.partes[1].tris)
              <=> CentroidBelowMid(geo, AxisIndex(ensamble.axis), t)
    /\ \A k \in 1..2 :
         /\ memo.partes[k].tris # <<>>
         /\ ~memo.partes[k].boundingBox.empty

====
